---- MODULE Spec2Model ----
(***************************************************************************)
(* Verification model of the water-meter calibration bench controller.     *)
(*                                                                         *)
(* Part 1: the valve controller (controller/valve_controller.py).          *)
(* Part 2: the manual-control API (bench_ui/views.py system_api_command)   *)
(*         on top of the valve controller, the pump controller and the     *)
(*         sensor manager's published snapshot.                            *)
(* Part 3: the module-level engine registry of controller/state_machine.py.*)
(* Part 4: the test execution engine (controller/state_machine.py).        *)
(* Part 5: the safety watchdog (controller/safety_monitor.py).             *)
(* Part 6: the link layer's sequence counter (comms/protocol.py) and       *)
(*         message queue (comms/message_queue.py).                         *)
(*                                                                         *)
(* Every part has its own specification over the one set of variables; the *)
(* variables a part does not use keep their initial value.                 *)
(***************************************************************************)
EXTENDS Integers, Sequences, FiniteSets, TLC

VARIABLES
    vc,          \* ValveController: _valve_states, _diverter, _active_lane
    lastOp,      \* the last completed controller / API call and its outcome
    pump,        \* the pump drive: running or not (VFD / simulator vfd_running)
    env,         \* the plant: DUT present on the line, reservoir level (%)
    snap,        \* SensorManager._latest, the published snapshot
    obs,         \* DUT-disconnect observation, counted in published snapshots
    reg,         \* state_machine module: _active_machine, _active_lock, callers
    eng,         \* the TestStateMachine of the run and its thread's position
    db,          \* the persisted Test row (status, notes)
    clock,       \* tenths of a second the engine has been blocked since it
                 \* last checked the abort flag
    mon,         \* SafetyMonitor: _active_alarms, _estop_triggered, _callbacks
    mq,          \* MessageQueue: sequence counter, queues, pending ACKs, link
    dut,         \* DUTInterface in manual mode: state, readings, timestamps
    lora,        \* LoRaHandler: _handlers and the calls of the last dispatch
    frag,        \* fragments on the air and the FragmentReassembler
    tower,       \* TowerLightController: pattern, blink flag and threads
    grav,        \* GravimetricEngine: state, and the engine's use of it
    results      \* the Test's result rows, overall_pass and certificate

vars == <<vc, lastOp, pump, env, snap, obs, reg, eng, db, clock, mon, mq, dut, lora, frag,
                 tower, grav, results>>

(***************************************************************************)
(* Part 1.  Valve controller                                               *)
(***************************************************************************)

SV1 == "SV1"
BVL1 == "BV-L1"
BVL2 == "BV-L2"
BVL3 == "BV-L3"
SVDRN == "SV-DRN"
BVBP == "BV-BP"

LANE_VALVES == {BVL1, BVL2, BVL3}

ALL_VALVES == {SV1, BVL1, BVL2, BVL3, SVDRN, BVBP}

\* The order in which open_valve walks LANE_VALVES (a tuple in the source).
LaneOrder == <<BVL1, BVL2, BVL3>>

SIZE_TO_LANE == [s \in {"DN25", "DN20", "DN15"} |->
                    CASE s = "DN25" -> BVL1
                      [] s = "DN20" -> BVL2
                      [] s = "DN15" -> BVL3]

LANE_MAP == [s \in {"1", "1_inch", "3/4", "3/4_inch", "1/2", "1/2_inch"} |->
                CASE s \in {"1", "1_inch"} -> BVL1
                  [] s \in {"3/4", "3/4_inch"} -> BVL2
                  [] s \in {"1/2", "1/2_inch"} -> BVL3]

\* Arguments select_lane is called with: the three sizes, a lane id, a lane
\* valve id, and a string that resolves to nothing.
LaneArgs == {"DN25", "DN20", "DN15", "3/4", BVL3, "DN40"}

\* Arguments open_valve / close_valve are called with.
ValveArgs == ALL_VALVES \cup {"UNKNOWN"}

NoLane == "None"

ValveControllerInit ==
    [valve_states |-> [v \in ALL_VALVES |-> FALSE],
     diverter     |-> "BYPASS",
     active_lane  |-> NoLane]

\* _actuate_valve: the tracked state changes only when the backend reports
\* success; `fails` is the set of valves whose actuation fails in this call.
actuate_valve(c, v, open_state, fails) ==
    IF v \in fails
    THEN [c |-> c, ok |-> FALSE]
    ELSE [c |-> [c EXCEPT !.valve_states[v] = open_state], ok |-> TRUE]

\* _set_diverter_internal
set_diverter_internal(c, position, divFails) ==
    IF divFails
    THEN [c |-> c, ok |-> FALSE]
    ELSE [c |-> [c EXCEPT !.diverter = position], ok |-> TRUE]

\* The mutual-exclusion loop of open_valve, from position i of LaneOrder:
\* closes every other open lane valve, stops at the first close that fails.
RECURSIVE CloseOtherLanes(_, _, _, _)
CloseOtherLanes(c, v, fails, i) ==
    IF i > Len(LaneOrder) THEN [c |-> c, ok |-> TRUE]
    ELSE LET lv == LaneOrder[i] IN
         IF lv # v /\ c.valve_states[lv]
         THEN LET r == actuate_valve(c, lv, FALSE, fails) IN
              IF r.ok THEN CloseOtherLanes(r.c, v, fails, i + 1)
              ELSE [c |-> c, ok |-> FALSE]
         ELSE CloseOtherLanes(c, v, fails, i + 1)

\* A faulty open_valve: the lane valve is opened without closing the others.
open_valve_NoExclusion(c, v, fails) ==
    IF v \notin ALL_VALVES THEN [c |-> c, ok |-> FALSE]
    ELSE actuate_valve(IF v \in LANE_VALVES THEN [c EXCEPT !.active_lane = v] ELSE c,
                       v, TRUE, fails)

\* open_valve
open_valve(c, v, fails) ==
    IF v \notin ALL_VALVES THEN [c |-> c, ok |-> FALSE]
    ELSE IF v \in LANE_VALVES
         THEN LET r == CloseOtherLanes(c, v, fails, 1) IN
              IF ~r.ok THEN [c |-> r.c, ok |-> FALSE]
              ELSE actuate_valve([r.c EXCEPT !.active_lane = v], v, TRUE, fails)
         ELSE actuate_valve(c, v, TRUE, fails)

\* close_valve
close_valve(c, v, fails) ==
    IF v \notin ALL_VALVES THEN [c |-> c, ok |-> FALSE]
    ELSE actuate_valve(IF v \in LANE_VALVES /\ c.active_lane = v
                       THEN [c EXCEPT !.active_lane = NoLane] ELSE c,
                       v, FALSE, fails)

\* close_all: every valve is commanded closed whatever the earlier outcomes,
\* then the diverter goes to BYPASS and the active lane is forgotten.
close_all(c, fails, divFails) ==
    LET closed == [c EXCEPT !.valve_states =
                       [v \in ALL_VALVES |->
                           IF v \in fails THEN c.valve_states[v] ELSE FALSE]]
        d == set_diverter_internal(closed, "BYPASS", divFails)
    IN [c |-> [d.c EXCEPT !.active_lane = NoLane],
        ok |-> (fails \cap ALL_VALVES = {})]

\* select_lane: resolve the argument, then delegate to open_valve.
select_lane(c, arg, fails) ==
    LET valve_id == IF arg \in DOMAIN SIZE_TO_LANE THEN SIZE_TO_LANE[arg]
                    ELSE IF arg \in DOMAIN LANE_MAP THEN LANE_MAP[arg]
                    ELSE IF arg \in LANE_VALVES THEN arg
                    ELSE NoLane
    IN IF valve_id = NoLane THEN [c |-> c, ok |-> FALSE]
       ELSE open_valve(c, valve_id, fails)

\* set_diverter
set_diverter(c, position, divFails) ==
    IF position \notin {"COLLECT", "BYPASS"} THEN [c |-> c, ok |-> FALSE]
    ELSE set_diverter_internal(c, position, divFails)

\* The command log entry: the last actuator command, its outcome, whether a
\* hardware call failed in it, and the conditions at the moment it was issued
\* (pump drive running, latest snapshot's reservoir level and DUT flag, a flow
\* path open, the lane valves open).
NoOp == [op |-> "none", dev |-> "", ok |-> TRUE, hwFailed |-> FALSE,
         pumpWas |-> FALSE, level |-> 0, dut |-> FALSE, path |-> FALSE,
         lanes |-> {}]

OpenLanes(c) == {lv \in LANE_VALVES : c.valve_states[lv]}

FlowPathOpen(c) == c.valve_states[SV1] \/ c.valve_states[BVBP]

Op(op, dev, ok, hwFailed) ==
    [op |-> op, dev |-> dev, ok |-> ok, hwFailed |-> hwFailed,
     pumpWas |-> IF op \in {"close", "disconnect"} THEN pump ELSE FALSE,
     level |-> IF op = "pump_start" THEN snap.reservoir_level_pct ELSE 0,
     dut |-> IF op = "open" /\ dev = SV1 THEN snap.dut_connected ELSE FALSE,
     path |-> IF op = "pump_start" THEN FlowPathOpen(vc) ELSE FALSE,
     lanes |-> IF op \in {"open", "select_lane"} THEN OpenLanes(vc) ELSE {}]

(***************************************************************************)
(* Initial values of the variables of the other parts                      *)
(***************************************************************************)

\* Reservoir levels (%) the plant can show: below the engine's pre-check
\* limit, between that and the manual-start limit, above both.
Levels == {20, 50, 85}

\* SensorSnapshot(): the defaults before the first poll.
SnapshotInit ==
    [timestamp |-> 0, dut_connected |-> FALSE, reservoir_level_pct |-> 0,
     vfd_running |-> FALSE, sv1_open |-> FALSE]

Backends == {"simulator", "real"}

BenchInit ==
    /\ vc = ValveControllerInit
    /\ lastOp = NoOp
    /\ pump = FALSE
    /\ env \in [dut : BOOLEAN, level : Levels, backend : Backends]
    /\ snap = SnapshotInit
    /\ obs = "none"

\* Number of threads that call start_test_machine.
NumCallers == 2

Callers == 1..NumCallers

\* Number of engines the process creates.
MaxMachines == 3

\* The module registry of state_machine.py: _active_machine (0 is None),
\* _active_lock's holder (0 is free), the engines whose thread is alive, the
\* number of engines created, each caller's position in start_test_machine
\* and the outcome of its last call, and whether that call began while
\* another caller was inside start_test_machine.
RegistryInit ==
    [active |-> 0, lock |-> 0, running |-> {}, created |-> 0,
     pc |-> [c \in Callers |-> "idle"],
     result |-> [c \in Callers |-> "none"],
     raced |-> [c \in Callers |-> FALSE]]

\* A TestStateMachine whose thread has not been started: _state is IDLE, no
\* abort is requested, the Test is not loaded and the controller references
\* are None (test, hw); pc is the thread's position in _run.  exc and msg
\* are the class and the text of the exception that left _run's try block
\* (the text is gone once the except clause has run), reason the text
\* handed to _state_emergency_stop, and issued the shutdown
\* calls _state_emergency_stop made.  A text is the sequence of the pieces
\* it was put together from.
EngineInit ==
    [state |-> "IDLE", pc |-> "done", abort_requested |-> FALSE,
     abort_reason |-> "", exc |-> "", msg |-> "", reason |-> <<>>,
     test |-> FALSE, hw |-> FALSE, issued |-> {},
     q_idx |-> 0, polls |-> 0,
     attempt |-> 1, event |-> FALSE, dut_mode |-> "rs485",
     otherFault |-> FALSE]

\* SafetyMonitor.__init__: no alarm is active, the e-stop latch is clear and
\* no callback is registered. fired and estops are the callback calls and
\* the hardware emergency_stop calls made by the last watchdog operation;
\* check is the last evaluation of a snapshot outside the watchdog's state.
NoCheck == [fn |-> "none"]

MonitorInit ==
    [running |-> FALSE, active |-> {}, estop_triggered |-> FALSE,
     callbacks |-> <<>>, fired |-> <<>>, estops |-> 0, check |-> NoCheck]

\* No sequence number: None in _last_received, nothing transmitted yet.
NoSeq == -1

\* The ASP device ids: 0x0001 is the lab, 0x0002 the bench.
Devices == {1, 2}

\* What the last operation of the link layer was (a round of the dispatch
\* loop, the reception of a frame, or another one) and what it did with a
\* received frame: the frame, the sequence stored for its device before, and
\* whether the frame was accepted, handled as an acknowledgement and passed
\* upstream.
NoLast ==
    [op |-> "none", frame |-> <<>>,
     before |-> NoSeq, accepted |-> FALSE, acked |-> FALSE, upstream |-> FALSE]

\* MessageQueue.__init__ with its SequenceCounter: the counter is 0, nothing
\* has been received, the queues and the pending-ACK map are empty and the
\* link is online.  records holds the OutgoingMessage objects by msg_id, the
\* queues refer to them; pc is the position of the dispatch thread, cur the
\* record it has popped (0 for none) and timed_out the entries its timeout
\* scan has collected; frames
\* counts the frames handed to send_func in the model's run and high is the
\* highest sequence number handed out so far.
QueueInit ==
    [counter |-> 0, last_received |-> [d \in Devices |-> NoSeq],
     records |-> <<>>, msg_counter |-> 0, queue |-> <<>>,
     pending_acks |-> <<>>, offline_queue |-> <<>>, link_online |-> TRUE,
     pc |-> "stopped", cur |-> 0, timed_out |-> <<>>,
     frames |-> 0, high |-> NoSeq, last |-> NoLast]

\* DUTInterface.__init__, in manual mode.
DutInit ==
    [state |-> "IDLE", before |-> 0, after |-> 0, timestamp_before |-> 0,
     timestamp_after |-> 0, result |-> "none"]

\* LoRaHandler.__init__: no handler registered, nothing dispatched yet.
LoraInit ==
    [handlers |-> [c \in {"START_TEST", "EMERGENCY_STOP", "RESULT_REQUEST"}
                     |-> <<>>],
     calls |-> <<>>]

\* No frame returned by FragmentReassembler.add (None).
NoFrame == [some |-> FALSE, data |-> <<>>]

\* LoRaHandler.__init__ and FragmentReassembler.__init__: the fragment
\* counter at 0, no group buffered; nothing on the air, the clock at 0.
\* sent lists the lengths of the frames transmitted, a frame being named by
\* its place in the list; idle counts the idle periods of the receive loop,
\* rx_index is the index of the fragment it read last and out the frame
\* that add returned for it.
FragInit ==
    [counter |-> 0, sent |-> <<>>, air |-> {}, buffers |-> <<>>, now |-> 0,
     idle |-> 0, rx_index |-> 0, out |-> NoFrame]

\* TowerLightController.__init__: pattern OFF, no blink thread.  alive is
\* the set of blink threads that have been started and have not ended,
\* created counts them; pc and arg are the position and the argument of
\* each thread that calls set_pattern.
TowerInit ==
    [pattern |-> "OFF", blink_running |-> FALSE, blink_thread |-> 0,
     alive |-> {}, created |-> 0,
     pc |-> [c \in {"engine", "watchdog"} |-> "idle"],
     target |-> [c \in {"engine", "watchdog"} |-> 0],
     arg |-> [c \in {"engine", "watchdog"} |-> "OFF"]]

\* GravimetricEngine.__init__, with the position of the thread that uses
\* it: the Q-point, the attempt of the tare, the next call.
GravInit ==
    [state |-> "IDLE", tare_weight |-> 0, pc |-> "tare", q_idx |-> 0,
     attempt |-> 1]

\* Number of Q-points of the run.
NumQPoints == 2

\* The maximum permissible error of the lower zone (Q1) and of the upper
\* zone, in percent.
MPE_LOWER == 5
MPE_UPPER == 2

\* The result rows of a Test as they are created with it (passed is NULL),
\* and the position of the run that fills them.
ResultsInit ==
    [rows |-> [q \in 0..(NumQPoints - 1) |->
                  [passed |-> "None", error_pct |-> 0, ref_volume_l |-> 0,
                   dut_volume_l |-> 0,
                   mpe_pct |-> IF q = 0 THEN MPE_LOWER ELSE MPE_UPPER]],
     pc |-> "calculate", q_idx |-> 0, status |-> "running",
     overall_pass |-> "None", certificate_number |-> ""]

LinkAndDutIdle ==
    /\ dut = DutInit
    /\ lora = LoraInit
    /\ frag = FragInit
    /\ tower = TowerInit
    /\ grav = GravInit
    /\ results = ResultsInit

EngineIdle ==
    /\ reg = RegistryInit
    /\ eng = EngineInit
    /\ db = [status |-> "pending", notes |-> <<>>]
    /\ clock = 0
    /\ mon = MonitorInit
    /\ mq = QueueInit
    /\ LinkAndDutIdle

(***************************************************************************)
(* Specification of the valve controller alone: any sequence of its        *)
(* operations, each with any set of failing actuations.                    *)
(***************************************************************************)

VOpen(v, fails) ==
    LET r == open_valve(vc, v, fails) IN
    /\ vc' = r.c
    /\ lastOp' = Op("open", v, r.ok, fails # {})
    /\ UNCHANGED <<pump, env, snap, obs, reg, eng, db, clock, mon, mq, dut, lora, frag,
                 tower, grav, results>>

VClose(v, fails) ==
    LET r == close_valve(vc, v, fails) IN
    /\ vc' = r.c
    /\ lastOp' = Op("close", v, r.ok, fails # {})
    /\ UNCHANGED <<pump, env, snap, obs, reg, eng, db, clock, mon, mq, dut, lora, frag,
                 tower, grav, results>>

VCloseAll(fails, divFails) ==
    LET r == close_all(vc, fails, divFails) IN
    /\ vc' = r.c
    /\ lastOp' = Op("close_all", "", r.ok, fails # {} \/ divFails)
    /\ UNCHANGED <<pump, env, snap, obs, reg, eng, db, clock, mon, mq, dut, lora, frag,
                 tower, grav, results>>

VSelectLane(arg, fails) ==
    LET r == select_lane(vc, arg, fails) IN
    /\ vc' = r.c
    /\ lastOp' = Op("select_lane", arg, r.ok, fails # {})
    /\ UNCHANGED <<pump, env, snap, obs, reg, eng, db, clock, mon, mq, dut, lora, frag,
                 tower, grav, results>>

VSetDiverter(position, divFails) ==
    LET r == set_diverter(vc, position, divFails) IN
    /\ vc' = r.c
    /\ lastOp' = Op("set_diverter", position, r.ok, divFails)
    /\ UNCHANGED <<pump, env, snap, obs, reg, eng, db, clock, mon, mq, dut, lora, frag,
                 tower, grav, results>>

InitValves ==
    /\ vc = ValveControllerInit
    /\ lastOp = NoOp
    /\ pump = FALSE
    /\ env = [dut |-> FALSE, level |-> 85, backend |-> "real"]
    /\ snap = SnapshotInit
    /\ obs = "none"
    /\ EngineIdle

\* At most this many actuations fail within one controller call.
MaxFailures == 1

FailSets == {f \in SUBSET ALL_VALVES : Cardinality(f) <= MaxFailures}

NextValves ==
    \/ \E v \in ValveArgs, fails \in FailSets : VOpen(v, fails)
    \/ \E v \in ValveArgs, fails \in FailSets : VClose(v, fails)
    \/ \E fails \in FailSets, d \in BOOLEAN : VCloseAll(fails, d)
    \/ \E a \in LaneArgs, fails \in FailSets : VSelectLane(a, fails)
    \/ \E p \in {"COLLECT", "BYPASS", "DRAIN"}, d \in BOOLEAN : VSetDiverter(p, d)

SpecValves == InitValves /\ [][NextValves]_vars

\* C1: at most one of the three lane valves is open in every reachable state
\* of the valve controller, whatever operations ran and whatever actuations
\* failed; and a lane-valve open that succeeded leaves that lane open and
\* both other lanes closed.
C1_LaneMutualExclusion ==
    /\ Cardinality(OpenLanes(vc)) <= 1
    /\ (lastOp.op \in {"open", "select_lane"} /\ lastOp.ok
          /\ (lastOp.dev \in LANE_VALVES \/ lastOp.op = "select_lane"))
        => /\ Cardinality(OpenLanes(vc)) = 1
           /\ vc.active_lane \in OpenLanes(vc)

\* C1 witness: BV-L3 was opened successfully while BV-L1 was open (scenario
\* E), after which BV-L3 is the one open lane.
C1_Witness ==
    /\ lastOp.op = "open" /\ lastOp.dev = BVL3 /\ lastOp.ok
    /\ lastOp.lanes = {BVL1}
    /\ OpenLanes(vc) = {BVL3}

(***************************************************************************)
(* Part 2.  Sensor manager, pump controller and the manual-control API     *)
(***************************************************************************)

\* SensorManager._read_all / _poll_loop: one poll publishes a new snapshot.
\* The DUT flag, the reservoir level and the pump's running flag are read from
\* the backend; sv1_open is SV1's state at publication.
ReadAll ==
    [timestamp |-> 1, dut_connected |-> env.dut,
     reservoir_level_pct |-> env.level, vfd_running |-> pump,
     sv1_open |-> vc.valve_states[SV1]]

\* A DUT disconnect is observed by a poll when the snapshot it publishes shows
\* the DUT gone, the one before showed it connected, and SV1 is open.  obs is
\* "observed" from the observation to the next publication, "next" from that
\* publication to the one after.
SensorTick ==
    /\ snap' = ReadAll
    /\ obs' = IF obs = "observed" THEN "next"
              ELSE IF snap.dut_connected /\ ~env.dut /\ vc.valve_states[SV1]
                   THEN "observed" ELSE "none"
    /\ UNCHANGED <<vc, lastOp, pump, env, reg, eng, db, clock, mon, mq, dut, lora, frag,
                 tower, grav, results>>

\* The plant: the DUT is taken off the line or put on it.
EnvDut(present) ==
    /\ env.dut # present
    /\ env' = [env EXCEPT !.dut = present]
    /\ UNCHANGED <<vc, lastOp, pump, snap, obs, reg, eng, db, clock, mon, mq, dut, lora, frag,
                 tower, grav, results>>

\* The valve devices the operator commands: the main line, the bypass and two
\* of the lanes.
ManualValves == {SV1, BVBP, BVL1, BVL2}

\* Hardware calls fail only on the real backend: the simulator's set_valve,
\* vfd_start and vfd_stop do not raise for a known device.
HwFailSets ==
    IF env.backend = "simulator" THEN {{}}
    ELSE {f \in FailSets : f \subseteq ManualValves}

HwOutcomes == IF env.backend = "simulator" THEN {TRUE} ELSE BOOLEAN

\* VFDController.start: the drive runs when the command succeeds.
vfd_start(running, ok) == IF ok THEN TRUE ELSE running

\* VFDController.stop / emergency_stop: the drive stops when the command
\* succeeds.
vfd_stop(running, ok) == IF ok THEN FALSE ELSE running

\* system_api_command refuses every manual command while a test is active.
ManualLocked == db.status \in {"running", "queued", "acknowledged"}

WantOpen(action, current_open) ==
    CASE action = "open" -> TRUE
      [] action = "close" -> FALSE
      [] OTHER -> ~current_open

\* The SV1 interlock of system_api_command: the latest snapshot marks the DUT
\* connected and the controller reports a lane valve open.
Sv1Interlock(c, s) == s.dut_connected /\ OpenLanes(c) # {}

\* system_api_command, category valve.
ManualValve(dev, action, fails, stopOk) ==
    LET want_open == WantOpen(action, vc.valve_states[dev])
        r == IF want_open THEN open_valve(vc, dev, fails)
             ELSE close_valve(vc, dev, fails)
        autoStop == /\ dev \in {SV1, BVBP} /\ ~want_open
                    /\ snap.vfd_running /\ ~FlowPathOpen(r.c)
    IN
    /\ ~ManualLocked
    /\ IF dev = SV1 /\ want_open /\ ~Sv1Interlock(vc, snap)
       THEN /\ lastOp' = Op("rejected", dev, FALSE, FALSE)
            /\ UNCHANGED <<vc, pump>>
       ELSE /\ vc' = r.c
            /\ pump' = IF autoStop THEN vfd_stop(pump, stopOk) ELSE pump
            /\ lastOp' = Op(IF want_open THEN "open" ELSE "close", dev, r.ok,
                            ~r.ok \/ (autoStop /\ ~stopOk))
    /\ UNCHANGED <<env, snap, obs, reg, eng, db, clock, mon, mq, dut, lora, frag,
                 tower, grav, results>>

\* The pump interlock of system_api_command: _tank_level_ok on the latest
\* snapshot and _has_open_flow_path on the controller.
PumpInterlock(c, s) == s.reservoir_level_pct >= 70 /\ FlowPathOpen(c)

\* system_api_command, category pump.
ManualPump(action, hwOk) ==
    LET starting == action = "start" \/ (action = "toggle" /\ ~snap.vfd_running)
    IN
    /\ ~ManualLocked
    /\ IF starting
       THEN IF ~PumpInterlock(vc, snap)
            THEN /\ lastOp' = Op("rejected", "P-01", FALSE, FALSE)
                 /\ UNCHANGED pump
            ELSE /\ pump' = vfd_start(pump, hwOk)
                 /\ lastOp' = Op("pump_start", "P-01", hwOk, ~hwOk)
       ELSE /\ pump' = vfd_stop(pump, hwOk)
            /\ lastOp' = Op("pump_stop", "P-01", hwOk, ~hwOk)
    /\ UNCHANGED <<vc, env, snap, obs, reg, eng, db, clock, mon, mq, dut, lora, frag,
                 tower, grav, results>>

\* system_api_command, category meter: on the simulator the DUT is connected
\* or disconnected; a disconnect closes SV1 when the controller reports it
\* open, and then stops the pump when the snapshot shows it running and the
\* bypass is closed.
ManualMeter(action, fails, stopOk) ==
    LET want_connected == CASE action = "connect" -> TRUE
                            [] action = "disconnect" -> FALSE
                            [] OTHER -> ~snap.dut_connected
        sv1 == vc.valve_states[SV1]
        r == close_valve(vc, SV1, fails)
        stop == sv1 /\ snap.vfd_running /\ ~r.c.valve_states[BVBP]
    IN
    /\ ~ManualLocked
    /\ env' = IF env.backend = "simulator"
              THEN [env EXCEPT !.dut = want_connected] ELSE env
    /\ IF ~want_connected /\ sv1
       THEN /\ vc' = r.c
            /\ pump' = IF stop THEN vfd_stop(pump, stopOk) ELSE pump
            /\ obs' = "observed"
            /\ lastOp' = Op("disconnect", "DUT", TRUE,
                            ~r.ok \/ (stop /\ ~stopOk))
       ELSE /\ lastOp' = Op(IF want_connected THEN "connect" ELSE "disconnect",
                            "DUT", TRUE, FALSE)
            /\ UNCHANGED <<vc, pump, obs>>
    /\ UNCHANGED <<snap, reg, eng, db, clock, mon, mq, dut, lora, frag,
                 tower, grav, results>>

InitManual == BenchInit /\ EngineIdle

NextManual ==
    \/ SensorTick
    \/ \E b \in BOOLEAN : EnvDut(b)
    \/ \E dev \in ManualValves, a \in {"open", "close", "toggle"},
          fails \in HwFailSets, ok \in HwOutcomes : ManualValve(dev, a, fails, ok)
    \/ \E a \in {"start", "stop", "toggle"}, ok \in HwOutcomes : ManualPump(a, ok)
    \/ \E a \in {"connect", "disconnect", "toggle"},
          fails \in HwFailSets, ok \in HwOutcomes : ManualMeter(a, fails, ok)

SpecManual == InitManual /\ [][NextManual]_vars

\* C4: a close command that leaves both SV1 and BV-BP closed while the pump
\* was running at the moment of the command has stopped the pump when it
\* returns (stated for commands in which no hardware call failed).
C4_CloseStopsPump ==
    (/\ lastOp.op = "close" /\ lastOp.dev \in {SV1, BVBP}
     /\ lastOp.pumpWas /\ ~lastOp.hwFailed
     /\ ~FlowPathOpen(vc))
    => ~pump

(***************************************************************************)
(* Part 3.  The module registry: start_test_machine                        *)
(***************************************************************************)

\* A lock that excludes nobody.
LockFree_Always(r) == TRUE

\* threading.Lock: _active_lock can be acquired when nobody holds it.
LockFree(r) == r.lock = 0

\* TestStateMachine.is_running of the registered engine:
\* _active_machine and _active_machine.is_running.
ActiveRunning(r) == r.active # 0 /\ r.active \in r.running

\* A thread calls start_test_machine and reaches "with _active_lock".
StartCall(c) ==
    /\ reg.pc[c] = "idle"
    /\ reg.created < MaxMachines
    /\ reg' = [reg EXCEPT !.pc[c] = "waiting", !.result[c] = "none",
                          !.raced[c] = \E o \in Callers \ {c} :
                                          reg.pc[o] \notin {"idle", "waiting"}]
    /\ UNCHANGED <<vc, lastOp, pump, env, snap, obs, eng, db, clock, mon, mq, dut, lora, frag,
                 tower, grav, results>>

\* The caller acquires _active_lock.
StartAcquire(c) ==
    /\ reg.pc[c] = "waiting"
    /\ LockFree(reg)
    /\ reg' = [reg EXCEPT !.pc[c] = "check", !.lock = c]
    /\ UNCHANGED <<vc, lastOp, pump, env, snap, obs, eng, db, clock, mon, mq, dut, lora, frag,
                 tower, grav, results>>

\* Under the lock: an engine is registered and running, so RuntimeError is
\* raised and the lock released; otherwise the caller goes on to create one.
StartCheck(c) ==
    /\ reg.pc[c] = "check"
    /\ reg' = IF ActiveRunning(reg)
              THEN [reg EXCEPT !.pc[c] = "idle", !.result[c] = "RuntimeError",
                               !.lock = IF reg.lock = c THEN 0 ELSE reg.lock]
              ELSE [reg EXCEPT !.pc[c] = "create"]
    /\ UNCHANGED <<vc, lastOp, pump, env, snap, obs, eng, db, clock, mon, mq, dut, lora, frag,
                 tower, grav, results>>

\* _active_machine = TestStateMachine(test_id)
StartCreate(c) ==
    /\ reg.pc[c] = "create"
    /\ reg' = [reg EXCEPT !.pc[c] = "start", !.active = reg.created + 1,
                          !.created = reg.created + 1]
    /\ UNCHANGED <<vc, lastOp, pump, env, snap, obs, eng, db, clock, mon, mq, dut, lora, frag,
                 tower, grav, results>>

\* _active_machine.start(): TestStateMachine.start raises RuntimeError when
\* the engine's thread is alive and starts the thread otherwise; the lock is
\* released on the way out.
StartThread(c) ==
    /\ reg.pc[c] = "start"
    /\ reg' = [reg EXCEPT !.pc[c] = "idle",
                          !.lock = IF reg.lock = c THEN 0 ELSE reg.lock,
                          !.running = reg.running \cup {reg.active},
                          !.result[c] = IF reg.active \in reg.running
                                        THEN "RuntimeError" ELSE "ok"]
    /\ UNCHANGED <<vc, lastOp, pump, env, snap, obs, eng, db, clock, mon, mq, dut, lora, frag,
                 tower, grav, results>>

\* TestStateMachine._run returns: the engine's thread is no longer alive.
ThreadExit(m) ==
    /\ m \in reg.running
    /\ reg' = [reg EXCEPT !.running = reg.running \ {m}]
    /\ UNCHANGED <<vc, lastOp, pump, env, snap, obs, eng, db, clock, mon, mq, dut, lora, frag,
                 tower, grav, results>>

InitRegistry ==
    /\ BenchInit /\ EngineIdle
    /\ env = [dut |-> FALSE, level |-> 85, backend |-> "simulator"]

NextRegistry ==
    \/ \E c \in Callers : StartCall(c)
    \/ \E c \in Callers : StartAcquire(c)
    \/ \E c \in Callers : StartCheck(c)
    \/ \E c \in Callers : StartCreate(c)
    \/ \E c \in Callers : StartThread(c)
    \/ \E m \in 1..MaxMachines : ThreadExit(m)

SpecRegistry == InitRegistry /\ [][NextRegistry]_vars

\* C6: at most one engine's thread is alive in every reachable state, and a
\* start_test_machine call that ends in RuntimeError changes neither the
\* registered engine, nor the set of running engines, nor the number of
\* engines created; callers may interleave at every step.
C6_OneEngineRunning ==
    /\ [](Cardinality(reg.running) <= 1)
    /\ [][(\E c \in Callers : reg'.result[c] = "RuntimeError"
                               /\ reg.result[c] # "RuntimeError")
           => /\ reg'.active = reg.active
              /\ reg'.running = reg.running
              /\ reg'.created = reg.created
              /\ reg.running # {}]_vars

\* C6 witness: two start calls raced for the lock; the first one's engine is
\* running and the second one failed.
C6_Witness ==
    /\ reg.raced[2]
    /\ reg.result[1] = "ok" /\ reg.result[2] = "RuntimeError"
    /\ reg.running = {1} /\ reg.active = 1

(***************************************************************************)
(* Part 4.  The test execution engine: TestStateMachine._run                *)
(*                                                                         *)
(* Durations are in tenths of a second.  clock is the time the engine has  *)
(* spent sleeping or polling since it last checked the abort flag.         *)
(***************************************************************************)

MAX_RETRIES == 3

RETRY_DELAY_S == 20

ABORT_CHECK_INTERVAL_S == 2

TARE_SCALE_SLEEP == 5

TARE_TIMEOUT_S == 50

SETTLE_TIME_S == 20

DRAIN_POLL_SLEEP == 5

PRECHECK_MIN_LEVEL == 30

\* Number of polls a polling loop makes before its deadline has passed.
MaxPolls == 2

MeterSizes == {"DN20", "DN40"}

AbortReasons == {"operator", "Safety alarm"}

Terminal == {"COMPLETE", "EMERGENCY_STOP"}

\* _run without its "except Exception" clause: the thread ends where it is.
Handler_NoCatchAll(kind) == IF kind = "Exception" THEN "done" ELSE "estop"

\* The except clauses of _run: AbortError, PreCheckError and every other
\* Exception lead to _state_emergency_stop.
Handler(kind) == "estop"

Raise(e, kind, msg) ==
    [e EXCEPT !.pc = Handler(kind), !.exc = kind, !.msg = msg]

\* The text of the exception a failing persistence call raises.
DbError == "database error"

\* Something other than a persistence call went wrong.
Fault(e) == [e EXCEPT !.otherFault = TRUE]

\* The head of a state handler: _set_state, then the state update (which
\* raises when persistence fails: _db_safe is try/finally), then, where the
\* handler has one, _check_abort.
StateEntry(e, st, dbOk, checks) ==
    LET e1 == [e EXCEPT !.state = st]
    IN IF ~dbOk THEN Raise(e1, "Exception", DbError)
       ELSE IF checks /\ e.abort_requested
            THEN Raise(e1, "AbortError", e.abort_reason)
       ELSE e1

\* _check_abort
CheckAbort(e) ==
    IF e.abort_requested THEN Raise(e, "AbortError", e.abort_reason) ELSE e

\* The engine's alarm callback in SafetyMonitor._callbacks.
OnSafetyAlarm == "_on_safety_alarm"

\* list.remove: the first occurrence goes; a missing value is ignored.
RemoveFirst(list, x) ==
    IF \E i \in 1..Len(list) : list[i] = x
    THEN LET i == CHOOSE k \in 1..Len(list) :
                      list[k] = x /\ \A j \in 1..(k - 1) : list[j] # x
         IN SubSeq(list, 1, i - 1) \o SubSeq(list, i + 1, Len(list))
    ELSE list

\* _cleanup
Cleanup(m) == [m EXCEPT !.callbacks = RemoveFirst(@, OnSafetyAlarm)]

\* _initialize: the Test is loaded, the Q-points are resolved, the
\* controller references are acquired, the alarm callback is registered and
\* the test is marked running.  A persistence call that fails is the load,
\* before all of this, or start_test, after it.
EInitialize(dbOk, hasParams) ==
    /\ eng.pc = "init"
    /\ \E loadOk \in IF dbOk THEN {TRUE} ELSE BOOLEAN :
          LET acquired == loadOk /\ hasParams
              e1 == [eng EXCEPT !.test = loadOk, !.hw = acquired]
          IN
          /\ eng' = IF ~loadOk THEN Raise(e1, "Exception", DbError)
                    ELSE IF ~hasParams
                         THEN Raise(Fault(e1), "PreCheckError",
                                    "No ISO 4064 parameters")
                    ELSE IF ~dbOk THEN Raise(e1, "Exception", DbError)
                    ELSE [e1 EXCEPT !.pc = "pre_check"]
          /\ mon' = IF acquired
                    THEN [mon EXCEPT !.callbacks = Append(@, OnSafetyAlarm)]
                    ELSE mon
    /\ db' = IF dbOk /\ hasParams THEN [db EXCEPT !.status = "running"] ELSE db
    /\ clock' = 0
    /\ UNCHANGED <<vc, lastOp, pump, env, snap, obs, reg, mq, dut, lora, frag,
                 tower, grav, results>>

\* _state_pre_check
EPreCheck(dbOk, alarmFree, vfdOk) ==
    LET e1 == StateEntry(eng, "PRE_CHECK", dbOk, TRUE)
        cause == IF ~alarmFree THEN "Safety alarms"
                 ELSE IF snap.timestamp = 0 THEN "Sensor manager has no data"
                 ELSE IF ~vfdOk THEN "VFD fault or not connected"
                 ELSE IF eng.dut_mode = "rs485" /\ ~env.dut
                      THEN "DUT meter not responding on RS485"
                 ELSE IF snap.reservoir_level_pct < PRECHECK_MIN_LEVEL
                      THEN "Reservoir level too low"
                 ELSE ""
    IN
    /\ eng.pc = "pre_check"
    /\ eng' = IF e1.pc # eng.pc THEN e1
              ELSE IF cause = "" THEN [e1 EXCEPT !.pc = "line_select"]
              ELSE Raise(Fault(e1), "PreCheckError", cause)
    /\ clock' = 0
    /\ UNCHANGED <<vc, lastOp, pump, env, snap, obs, reg, db, mon, mq, dut, lora, frag,
                 tower, grav, results>>

\* _state_line_select, up to the lane selection.
ELineSelect(dbOk, size, fails) ==
    LET e1 == StateEntry(eng, "LINE_SELECT", dbOk, TRUE)
        raised == e1.pc # eng.pc
        r == select_lane(vc, size, fails)
    IN
    /\ eng.pc = "line_select"
    /\ vc' = IF raised THEN vc ELSE r.c
    /\ lastOp' = IF raised THEN lastOp
                 ELSE Op("select_lane", size, r.ok, ~r.ok)
    /\ eng' = IF raised THEN e1
              ELSE IF r.ok THEN [e1 EXCEPT !.pc = "line_open_sv1"]
              ELSE Raise(Fault(e1), "AbortError", "Failed to select lane")
    /\ clock' = 0
    /\ UNCHANGED <<pump, env, snap, obs, reg, db, mon, mq, dut, lora, frag,
                 tower, grav, results>>

\* _state_line_select, after the lane selection: SV1 is opened and the
\* diverter set to BYPASS; neither result is looked at.
ELineOpenSv1(fails, divFails) ==
    LET r == open_valve(vc, SV1, fails)
        r2 == set_diverter(r.c, "BYPASS", divFails)
    IN
    /\ eng.pc = "line_open_sv1"
    /\ vc' = r2.c
    /\ lastOp' = Op("open", SV1, r.ok, ~r.ok \/ ~r2.ok)
    /\ eng' = [eng EXCEPT !.pc = "pump_start",
                          !.otherFault = @ \/ ~r.ok \/ ~r2.ok]
    /\ clock' = 0
    /\ UNCHANGED <<pump, env, snap, obs, reg, db, mon, mq, dut, lora, frag,
                 tower, grav, results>>

\* _state_pump_start, up to the start command.
EPumpStart(dbOk, hwOk) ==
    LET e1 == StateEntry(eng, "PUMP_START", dbOk, TRUE)
        raised == e1.pc # eng.pc
    IN
    /\ eng.pc = "pump_start"
    /\ pump' = IF raised THEN pump ELSE vfd_start(pump, hwOk)
    /\ lastOp' = IF raised THEN lastOp ELSE Op("pump_start", "P-01", hwOk, ~hwOk)
    /\ eng' = IF raised THEN e1
              ELSE IF hwOk THEN [e1 EXCEPT !.pc = "pump_confirm", !.polls = 0]
              ELSE Raise(Fault(e1), "AbortError", "VFD start command failed")
    /\ clock' = 0
    /\ UNCHANGED <<vc, env, snap, obs, reg, db, mon, mq, dut, lora, frag,
                 tower, grav, results>>

\* _state_pump_start, one turn of the confirmation loop.
EPumpConfirm(running) ==
    LET e1 == CheckAbort(eng)
    IN
    /\ eng.pc = "pump_confirm"
    /\ eng' = IF eng.polls >= MaxPolls
              THEN Raise(Fault(eng), "AbortError",
                         "VFD did not confirm running within timeout")
              ELSE IF e1.pc # eng.pc THEN e1
              ELSE IF running THEN [eng EXCEPT !.pc = "flow_stabilize"]
              ELSE [eng EXCEPT !.polls = @ + 1]
    /\ clock' = IF eng.polls < MaxPolls /\ ~eng.abort_requested /\ ~running
                THEN ABORT_CHECK_INTERVAL_S ELSE 0
    /\ UNCHANGED <<vc, lastOp, pump, env, snap, obs, reg, db, mon, mq, dut, lora, frag,
                 tower, grav, results>>

\* _state_flow_stabilize, up to the loop; it has no abort check of its own.
EFlowStabilize(dbOk) ==
    LET e1 == StateEntry(eng, "FLOW_STABILIZE", dbOk, FALSE)
    IN
    /\ eng.pc = "flow_stabilize"
    /\ eng' = IF e1.pc # eng.pc THEN e1
              ELSE [e1 EXCEPT !.pc = "flow_poll", !.polls = 0]
    /\ clock' = 0
    /\ UNCHANGED <<vc, lastOp, pump, env, snap, obs, reg, db, mon, mq, dut, lora, frag,
                 tower, grav, results>>

\* _state_flow_stabilize, one turn of the PID loop; the timeout is not fatal.
EFlowPoll(stable) ==
    LET e1 == CheckAbort(eng)
    IN
    /\ eng.pc = "flow_poll"
    /\ eng' = IF eng.polls >= MaxPolls THEN [Fault(eng) EXCEPT !.pc = "tare_scale"]
              ELSE IF e1.pc # eng.pc THEN e1
              ELSE IF stable THEN [eng EXCEPT !.pc = "tare_scale"]
              ELSE [eng EXCEPT !.polls = @ + 1]
    /\ clock' = IF eng.polls < MaxPolls /\ ~eng.abort_requested /\ ~stable
                THEN ABORT_CHECK_INTERVAL_S ELSE 0
    /\ UNCHANGED <<vc, lastOp, pump, env, snap, obs, reg, db, mon, mq, dut, lora, frag,
                 tower, grav, results>>

\* _state_tare_scale, up to the retry loop: the diverter is set and the
\* thread sleeps half a second.
ETareScale(dbOk, divFails) ==
    LET e1 == StateEntry(eng, "TARE_SCALE", dbOk, TRUE)
        raised == e1.pc # eng.pc
        r == set_diverter(vc, "BYPASS", divFails)
    IN
    /\ eng.pc = "tare_scale"
    /\ vc' = IF raised THEN vc ELSE r.c
    /\ eng' = IF raised THEN e1
              ELSE [e1 EXCEPT !.pc = "tare_retry", !.attempt = 1,
                              !.otherFault = @ \/ ~r.ok]
    /\ clock' = IF raised THEN 0 ELSE TARE_SCALE_SLEEP
    /\ UNCHANGED <<lastOp, pump, env, snap, obs, reg, db, mon, mq, dut, lora, frag,
                 tower, grav, results>>

\* _retry with its caller's "if not ok: raise AbortError(msg)", going on
\* without a limit on the attempts.
RetryAttempt_NoLimit(e, ok, next, took, msg) ==
    LET e1 == CheckAbort(e)
    IN IF e1.pc # e.pc THEN [e |-> e1, t |-> 0]
       ELSE IF ok THEN [e |-> [e EXCEPT !.pc = next], t |-> 0]
       ELSE [e |-> [Fault(e) EXCEPT !.attempt = @ + 1],
             t |-> took + RETRY_DELAY_S]

\* _retry with its caller's "if not ok: raise AbortError(msg)": one attempt.
\* The abort flag is checked, func is called, and a failed attempt that is
\* not the last is followed by the retry delay.  next is where the caller
\* goes on a result, took the time a failed call takes.
RetryAttempt(e, ok, next, took, msg) ==
    LET e1 == CheckAbort(e)
    IN IF e1.pc # e.pc THEN [e |-> e1, t |-> 0]
       ELSE IF ok THEN [e |-> [e EXCEPT !.pc = next], t |-> 0]
       ELSE IF e.attempt < MAX_RETRIES
            THEN [e |-> [Fault(e) EXCEPT !.attempt = @ + 1],
                  t |-> took + RETRY_DELAY_S]
       ELSE [e |-> Raise(Fault(e), "AbortError", msg), t |-> took]

\* _state_tare_scale, one attempt of _retry(self._grav.tare); a failed tare
\* has polled the scale until its timeout.
ETareRetry(ok) ==
    LET r == RetryAttempt(eng, ok, "measure", TARE_TIMEOUT_S,
                          "Scale tare failed after retries")
    IN
    /\ eng.pc = "tare_retry"
    /\ eng' = r.e
    /\ clock' = r.t
    /\ UNCHANGED <<vc, lastOp, pump, env, snap, obs, reg, db, mon, mq, dut, lora, frag,
                 tower, grav, results>>

\* _state_measure, up to the first DUT reading: the DUT interface is reset
\* and, in manual mode, the event of the wait is cleared.
EMeasure(dbOk) ==
    LET e1 == StateEntry(eng, "MEASURE", dbOk, TRUE)
    IN
    /\ eng.pc = "measure"
    /\ eng' = IF e1.pc # eng.pc THEN e1
              ELSE [e1 EXCEPT !.pc = "dut_before", !.attempt = 1, !.polls = 0,
                              !.event = FALSE]
    /\ dut' = IF e1.pc # eng.pc THEN dut ELSE DutInit
    /\ clock' = 0
    /\ UNCHANGED <<vc, lastOp, pump, env, snap, obs, reg, db, mon, mq, lora, frag,
                 tower, grav, results>>

\* What follows a DUT reading: after the "before" reading the collection is
\* started (GravimetricEngine.start_collection sets the diverter to COLLECT),
\* after the "after" reading comes CALCULATE.
AfterDutReading(e) == IF e.pc = "dut_before" THEN "measure_poll" ELSE "calculate"

\* _read_dut in RS485 mode: one attempt of _retry(read_before / read_after).
EReadDutRs485(ok, divFails) ==
    LET r0 == RetryAttempt(eng, ok, AfterDutReading(eng), 0,
                           "DUT reading failed")
        r == [r0 EXCEPT !.e.attempt = IF r0.e.pc = AfterDutReading(eng)
                                      THEN 1 ELSE @]
        collect == r.e.pc = "measure_poll"
        d == set_diverter(vc, "COLLECT", divFails)
    IN
    /\ eng.pc \in {"dut_before", "dut_after"}
    /\ eng.dut_mode = "rs485"
    /\ eng' = IF collect THEN [r.e EXCEPT !.polls = 0, !.otherFault = @ \/ ~d.ok]
              ELSE r.e
    /\ vc' = IF collect THEN d.c ELSE vc
    /\ clock' = r.t
    /\ UNCHANGED <<lastOp, pump, env, snap, obs, reg, db, mon, mq, dut, lora, frag,
                 tower, grav, results>>

\* _request_manual_dut: one turn of the wait loop, or, once the event is set,
\* the abort check that follows the loop.
EWaitManualDut(divFails) ==
    LET e1 == CheckAbort(eng)
        got == eng.event /\ ~eng.abort_requested
        collect == got /\ eng.pc = "dut_before"
        d == set_diverter(vc, "COLLECT", divFails)
    IN
    /\ eng.pc \in {"dut_before", "dut_after"}
    /\ eng.dut_mode = "manual"
    /\ eng' = IF e1.pc # eng.pc THEN e1
              ELSE IF got
                   THEN [eng EXCEPT !.pc = AfterDutReading(eng), !.polls = 0,
                                    !.otherFault = @ \/ (collect /\ ~d.ok)]
              ELSE IF eng.polls >= MaxPolls
                   THEN Raise(Fault(eng), "AbortError", "Manual DUT timeout")
              ELSE [eng EXCEPT !.polls = @ + 1]
    /\ vc' = IF collect THEN d.c ELSE vc
    /\ clock' = IF ~eng.abort_requested /\ ~eng.event /\ eng.polls < MaxPolls
                THEN ABORT_CHECK_INTERVAL_S ELSE 0
    /\ UNCHANGED <<lastOp, pump, env, snap, obs, reg, db, mon, mq, dut, lora, frag,
                 tower, grav, results>>

\* submit_manual_dut_reading: the operator's entry sets the event.
SubmitManualDut ==
    /\ eng.pc \in {"dut_before", "dut_after"}
    /\ eng.dut_mode = "manual"
    /\ ~eng.event
    /\ eng' = [eng EXCEPT !.event = TRUE]
    /\ UNCHANGED <<vc, lastOp, pump, env, snap, obs, reg, db, clock, mon, mq, dut, lora, frag,
                 tower, grav, results>>

\* _state_measure, one turn of the weight loop; at the deadline the loop ends
\* and the measurement goes on.
EMeasurePoll(reached) ==
    LET e1 == CheckAbort(eng)
    IN
    /\ eng.pc = "measure_poll"
    /\ eng' = IF eng.polls >= MaxPolls THEN [Fault(eng) EXCEPT !.pc = "measure_stop"]
              ELSE IF e1.pc # eng.pc THEN e1
              ELSE IF reached THEN [eng EXCEPT !.pc = "measure_stop"]
              ELSE [eng EXCEPT !.polls = @ + 1]
    /\ clock' = IF eng.polls < MaxPolls /\ ~eng.abort_requested /\ ~reached
                THEN ABORT_CHECK_INTERVAL_S ELSE 0
    /\ UNCHANGED <<vc, lastOp, pump, env, snap, obs, reg, db, mon, mq, dut, lora, frag,
                 tower, grav, results>>

\* GravimetricEngine.stop_collection_and_measure: the diverter goes back to
\* BYPASS and the thread sleeps for the settle time.
EMeasureStop(divFails) ==
    LET d == set_diverter(vc, "BYPASS", divFails)
    IN
    /\ eng.pc = "measure_stop"
    /\ vc' = d.c
    /\ eng' = [eng EXCEPT !.pc = "dut_after", !.attempt = 1, !.polls = 0,
                          !.event = FALSE, !.otherFault = @ \/ ~d.ok]
    /\ clock' = SETTLE_TIME_S
    /\ UNCHANGED <<lastOp, pump, env, snap, obs, reg, db, mon, mq, dut, lora, frag,
                 tower, grav, results>>

\* _state_calculate: the state update is not guarded; the result processing
\* is.
ECalculate(dbOk) ==
    LET e1 == StateEntry(eng, "CALCULATE", dbOk, TRUE)
    IN
    /\ eng.pc = "calculate"
    /\ eng' = IF e1.pc # eng.pc THEN e1 ELSE [e1 EXCEPT !.pc = "drain"]
    /\ clock' = 0
    /\ UNCHANGED <<vc, lastOp, pump, env, snap, obs, reg, db, mon, mq, dut, lora, frag,
                 tower, grav, results>>

\* _state_drain, up to drain_tank's loop: SV-DRN is opened.
EDrain(dbOk, fails) ==
    LET e1 == StateEntry(eng, "DRAIN", dbOk, TRUE)
        raised == e1.pc # eng.pc
        r == open_valve(vc, SVDRN, fails)
    IN
    /\ eng.pc = "drain"
    /\ vc' = IF raised THEN vc ELSE r.c
    /\ eng' = IF raised THEN e1
              ELSE [e1 EXCEPT !.pc = "drain_poll", !.polls = 0,
                              !.otherFault = @ \/ ~r.ok]
    /\ clock' = 0
    /\ UNCHANGED <<lastOp, pump, env, snap, obs, reg, db, mon, mq, dut, lora, frag,
                 tower, grav, results>>

\* GravimetricEngine.drain_tank, one turn of its loop: SV-DRN is closed when
\* the tank is empty or the deadline has passed; otherwise the thread sleeps
\* half a second.  The loop has no abort check.
EDrainPoll(empty, fails) ==
    LET leave == empty \/ eng.polls >= MaxPolls
        r == close_valve(vc, SVDRN, fails)
    IN
    /\ eng.pc = "drain_poll"
    /\ vc' = IF leave THEN r.c ELSE vc
    /\ eng' = IF leave
              THEN [eng EXCEPT !.pc = "next_point",
                               !.otherFault = @ \/ ~r.ok \/ ~empty]
              ELSE [eng EXCEPT !.polls = @ + 1]
    /\ clock' = IF leave THEN clock ELSE clock + DRAIN_POLL_SLEEP
    /\ UNCHANGED <<lastOp, pump, env, snap, obs, reg, db, mon, mq, dut, lora, frag,
                 tower, grav, results>>

\* _state_next_point with a for loop that ends after the first Q-point.
ENextPoint_FirstPointOnly(dbOk) ==
    LET e1 == StateEntry(eng, "NEXT_POINT", dbOk, TRUE)
    IN
    /\ eng.pc = "next_point"
    /\ eng' = IF e1.pc # eng.pc THEN e1 ELSE [e1 EXCEPT !.pc = "complete"]
    /\ clock' = 0
    /\ UNCHANGED <<vc, lastOp, pump, env, snap, obs, reg, db, mon, mq, dut, lora, frag,
                 tower, grav, results>>

\* _state_next_point, and the for loop of _run going round or ending.
ENextPoint(dbOk) ==
    LET e1 == StateEntry(eng, "NEXT_POINT", dbOk, TRUE)
    IN
    /\ eng.pc = "next_point"
    /\ eng' = IF e1.pc # eng.pc THEN e1
              ELSE IF eng.q_idx + 1 < NumQPoints
                   THEN [e1 EXCEPT !.pc = "flow_stabilize", !.q_idx = @ + 1]
              ELSE [e1 EXCEPT !.pc = "complete"]
    /\ clock' = 0
    /\ UNCHANGED <<vc, lastOp, pump, env, snap, obs, reg, db, mon, mq, dut, lora, frag,
                 tower, grav, results>>

\* _state_complete: the state is set first and the abort flag is not looked
\* at; the pump is stopped and the valves closed; complete_test and, for a
\* passed test, generate_certificate_number are not guarded.  dbFails names
\* the persistence call that fails, if one does.
EComplete(hwOk, fails, divFails, dbFails, overall_pass) ==
    LET r == close_all(vc, fails, divFails)
        e1 == [eng EXCEPT !.state = "COMPLETE",
                          !.otherFault = @ \/ ~hwOk \/ ~r.ok \/ divFails]
        raises == \/ dbFails = "complete_test"
                  \/ (dbFails = "certificate" /\ overall_pass)
    IN
    /\ eng.pc = "complete"
    /\ pump' = vfd_stop(pump, hwOk)
    /\ vc' = r.c
    /\ lastOp' = Op("close_all", "", r.ok, ~hwOk \/ ~r.ok \/ divFails)
    /\ db' = IF dbFails = "complete_test" THEN db
             ELSE [db EXCEPT !.status = "completed"]
    /\ eng' = IF raises THEN Raise(e1, "Exception", DbError)
              ELSE [e1 EXCEPT !.pc = "done"]
    /\ mon' = IF raises THEN mon ELSE Cleanup(mon)
    /\ clock' = 0
    /\ UNCHANGED <<env, snap, obs, reg, mq, dut, lora, frag,
                 tower, grav, results>>

\* The reason _run hands to _state_emergency_stop: self._abort_reason for an
\* AbortError, and the text of the exception behind a prefix otherwise.
StopReason(e) ==
    CASE e.exc = "AbortError" ->
            IF e.abort_reason = "" THEN <<>> ELSE <<e.abort_reason>>
      [] e.exc = "PreCheckError" -> <<"Pre-check failed: ", e.msg>>
      [] OTHER -> <<"Unexpected error: ", e.msg>>

\* testing.services.abort_test
abort_test(reason) ==
    [status |-> "aborted",
     notes |-> IF reason # <<>> THEN <<"Aborted: ">> \o reason
               ELSE <<"Aborted">>]

\* _state_emergency_stop, then _cleanup: the state is set first; every
\* further step is guarded, and is made only when its controller reference
\* (for abort_test: the Test) is not None.
EEmergencyStop(hwOk, fails, divFails, dbOk) ==
    LET r == close_all(vc, fails, divFails)
        why == StopReason(eng)
    IN
    /\ eng.pc = "estop"
    /\ pump' = IF eng.hw THEN vfd_stop(pump, hwOk) ELSE pump
    /\ vc' = IF eng.hw THEN r.c ELSE vc
    /\ lastOp' = IF eng.hw
                 THEN Op("close_all", "", r.ok, ~hwOk \/ ~r.ok \/ divFails)
                 ELSE lastOp
    /\ db' = IF eng.test /\ dbOk THEN abort_test(why) ELSE db
    /\ eng' = [eng EXCEPT
                 !.state = "EMERGENCY_STOP", !.pc = "done", !.reason = why,
                 !.msg = "",
                 !.issued =
                    (IF eng.hw
                     THEN {"pid.disable", "vfd.emergency_stop",
                           "valves.close_all", "tower.set_pattern(ESTOP)"}
                     ELSE {})
                    \cup (IF eng.test THEN {"abort_test"} ELSE {})]
    /\ mon' = Cleanup(mon)
    /\ clock' = 0
    /\ UNCHANGED <<env, snap, obs, reg, mq, dut, lora, frag,
                 tower, grav, results>>

\* TestStateMachine.abort, called from another thread while the engine's
\* thread is alive.
ExternalAbort(reason) ==
    /\ eng.pc # "done"
    /\ eng' = [eng EXCEPT !.abort_requested = TRUE, !.abort_reason = reason,
                          !.event = TRUE, !.otherFault = TRUE]
    /\ UNCHANGED <<vc, lastOp, pump, env, snap, obs, reg, db, clock, mon, mq, dut, lora, frag,
                 tower, grav, results>>

\* The plant during a run: the DUT goes off the line or comes back.
EngineEnvDut(present) ==
    /\ EnvDut(present)
    /\ eng.pc # "done"

DutModes == {"rs485", "manual"}

\* A run has just been started: the thread is at the top of _run.
InitEngine ==
    /\ vc = ValveControllerInit
    /\ lastOp = NoOp
    /\ pump = FALSE
    /\ env \in [dut : BOOLEAN, level : Levels, backend : {"real"}]
    /\ snap = SnapshotInit
    /\ obs = "none"
    /\ reg = RegistryInit
    /\ eng \in {[EngineInit EXCEPT !.pc = "init", !.dut_mode = m] : m \in DutModes}
    /\ db = [status |-> "pending", notes |-> <<>>]
    /\ clock = 0
    /\ mon = MonitorInit
    /\ mq = QueueInit
    /\ LinkAndDutIdle

\* In one step of the engine no actuation fails, or the actuation of one
\* valve does.
EngineFailSets == {{}} \cup {{v} : v \in ALL_VALVES}

\* The steps of the engine's thread, by its position.
EngineStep ==
    \/ /\ eng.pc = "init"
       /\ \E dbOk \in BOOLEAN, hasParams \in BOOLEAN : EInitialize(dbOk, hasParams)
    \/ /\ eng.pc = "pre_check"
       /\ \E dbOk \in BOOLEAN, alarmFree \in BOOLEAN, vfdOk \in BOOLEAN :
            EPreCheck(dbOk, alarmFree, vfdOk)
    \/ /\ eng.pc = "line_select"
       /\ \E dbOk \in BOOLEAN, size \in MeterSizes, fails \in EngineFailSets :
            ELineSelect(dbOk, size, fails)
    \/ /\ eng.pc = "line_open_sv1"
       /\ \E fails \in EngineFailSets, divFails \in BOOLEAN : ELineOpenSv1(fails, divFails)
    \/ /\ eng.pc = "pump_start"
       /\ \E dbOk \in BOOLEAN, hwOk \in BOOLEAN : EPumpStart(dbOk, hwOk)
    \/ /\ eng.pc = "pump_confirm"
       /\ \E running \in BOOLEAN : EPumpConfirm(running)
    \/ /\ eng.pc = "flow_stabilize"
       /\ \E dbOk \in BOOLEAN : EFlowStabilize(dbOk)
    \/ /\ eng.pc = "flow_poll"
       /\ \E stable \in BOOLEAN : EFlowPoll(stable)
    \/ /\ eng.pc = "tare_scale"
       /\ \E dbOk \in BOOLEAN, divFails \in BOOLEAN : ETareScale(dbOk, divFails)
    \/ /\ eng.pc = "tare_retry"
       /\ \E ok \in BOOLEAN : ETareRetry(ok)
    \/ /\ eng.pc = "measure"
       /\ \E dbOk \in BOOLEAN : EMeasure(dbOk)
    \/ /\ eng.pc \in {"dut_before", "dut_after"}
       /\ \E ok \in BOOLEAN, divFails \in BOOLEAN : EReadDutRs485(ok, divFails)
    \/ /\ eng.pc \in {"dut_before", "dut_after"}
       /\ \E divFails \in BOOLEAN : EWaitManualDut(divFails)
    \/ /\ eng.pc = "measure_poll"
       /\ \E reached \in BOOLEAN : EMeasurePoll(reached)
    \/ /\ eng.pc = "measure_stop"
       /\ \E divFails \in BOOLEAN : EMeasureStop(divFails)
    \/ /\ eng.pc = "calculate"
       /\ \E dbOk \in BOOLEAN : ECalculate(dbOk)
    \/ /\ eng.pc = "drain"
       /\ \E dbOk \in BOOLEAN, fails \in EngineFailSets : EDrain(dbOk, fails)
    \/ /\ eng.pc = "drain_poll"
       /\ \E empty \in BOOLEAN, fails \in EngineFailSets : EDrainPoll(empty, fails)
    \/ /\ eng.pc = "next_point"
       /\ \E dbOk \in BOOLEAN : ENextPoint(dbOk)
    \/ /\ eng.pc = "complete"
       /\ \E hwOk \in BOOLEAN, fails \in EngineFailSets, divFails \in BOOLEAN,
            dbFails \in {"none", "complete_test", "certificate"},
            overall_pass \in BOOLEAN :
            EComplete(hwOk, fails, divFails, dbFails, overall_pass)
    \/ /\ eng.pc = "estop"
       /\ \E hwOk \in BOOLEAN, fails \in EngineFailSets, divFails \in BOOLEAN,
            dbOk \in BOOLEAN : EEmergencyStop(hwOk, fails, divFails, dbOk)

NextEngine ==
    \/ EngineStep
    \/ SensorTick
    \/ \E b \in BOOLEAN : EngineEnvDut(b)
    \/ SubmitManualDut
    \/ \E reason \in AbortReasons : ExternalAbort(reason)

SpecEngine == InitEngine /\ [][NextEngine]_vars

\* A run under fixed plant conditions: the snapshot has or has not been
\* published, the DUT is or is not on the line.
InitEngineFair ==
    /\ vc = ValveControllerInit
    /\ lastOp = NoOp
    /\ pump = FALSE
    /\ env \in [dut : BOOLEAN, level : Levels, backend : {"real"}]
    /\ snap \in {SnapshotInit, ReadAll}
    /\ obs = "none"
    /\ reg = RegistryInit
    /\ eng \in {[EngineInit EXCEPT !.pc = "init", !.dut_mode = m] : m \in DutModes}
    /\ db = [status |-> "pending", notes |-> <<>>]
    /\ clock = 0
    /\ mon = MonitorInit
    /\ mq = QueueInit
    /\ LinkAndDutIdle

NextEngineFair ==
    \/ EngineStep
    \/ SubmitManualDut
    \/ \E reason \in AbortReasons : ExternalAbort(reason)

\* The engine's thread keeps being scheduled: every sleep and every wait of
\* the engine has a timeout.
SpecEngineFair ==
    InitEngineFair /\ [][NextEngineFair]_vars /\ WF_vars(EngineStep)

\* C2: every successful opening of SV1 happens while a lane valve is open and
\* the latest snapshot marks the DUT connected.
C2_Sv1NeedsLaneAndDut ==
    (lastOp.op = "open" /\ lastOp.dev = SV1 /\ lastOp.ok)
    => (lastOp.lanes # {} /\ lastOp.dut)

\* C3: every successful pump start happens while the reservoir level is at
\* least 70% and SV1 or BV-BP is open.
C3_PumpNeedsLevelAndPath ==
    (lastOp.op = "pump_start" /\ lastOp.ok)
    => (lastOp.level >= 70 /\ lastOp.path)

\* C5: when a snapshot has shown the DUT gone while SV1 was open, SV1 is
\* closed when the next snapshot is published.
C5_Sv1ClosedByNextSnapshot == (obs = "next") => ~snap.sv1_open

\* C7: every started run eventually reaches COMPLETE or EMERGENCY_STOP,
\* whatever fails and whenever abort is requested.
C7_RunTerminates == <>(eng.state \in Terminal)

\* C7 witness: a run in which abort was requested, a persistence call raised
\* and the final abort_test failed as well has ended in EMERGENCY_STOP.
C7_Witness ==
    /\ eng.pc = "done" /\ eng.state = "EMERGENCY_STOP"
    /\ eng.exc = "Exception" /\ eng.abort_requested
    /\ db.status = "running"

\* C8: a run on which abort was called while its thread was alive ends in
\* EMERGENCY_STOP.
C8_AbortEndsInEmergencyStop ==
    (eng.pc = "done" /\ eng.abort_requested) => eng.state = "EMERGENCY_STOP"

\* C9: the engine never sleeps or polls for more than 200 ms without checking
\* the abort flag.
C9_AbortCheckedEvery200ms == clock <= ABORT_CHECK_INTERVAL_S

\* C10: the engine is in EMERGENCY_STOP only when something other than a
\* persistence call went wrong (hardware, sensors, a timeout, a pre-check
\* condition or an abort request).
C10_PersistenceFailureNotFatal ==
    eng.state = "EMERGENCY_STOP" => eng.otherFault

(***************************************************************************)
(* Part 5: the safety watchdog.  Readings are whole bar, percent, degrees  *)
(* Celsius and kilograms.                                                  *)
(***************************************************************************)

SAFETY_PRESSURE_MAX == 8
SAFETY_RESERVOIR_MIN == 20
SAFETY_SCALE_MAX == 180
SAFETY_TEMP_MIN == 5
SAFETY_TEMP_MAX == 40

\* SafetyAlarm: its code and severity.
SafetyAlarm(code, severity) == [code |-> code, severity |-> severity]

is_emergency(alarm) == alarm.severity = "emergency"

\* The fields of a SensorSnapshot the watchdog reads: the online flags of
\* the bridges and their readings.  A bridge that is offline leaves its
\* readings at the dataclass defaults or at whatever the backend reports;
\* both are among the values below.
OnlineFlags ==
    [b2_vfd_online : BOOLEAN, b4_scale_online : BOOLEAN,
     b5_gpio_online : BOOLEAN, b6_tank_online : BOOLEAN]

Readings ==
    [pressure_upstream_bar : {0, 9}, reservoir_level_pct : {0, 85},
     water_temp_c : {0, 25, 45}, weight_raw_kg : {0, 200},
     estop_active : BOOLEAN, contactor_on : BOOLEAN, mcb_on : BOOLEAN,
     vfd_fault : {0, 3}]

SensorSnapshot(o, r) ==
    [b2_vfd_online |-> o.b2_vfd_online, b4_scale_online |-> o.b4_scale_online,
     b5_gpio_online |-> o.b5_gpio_online, b6_tank_online |-> o.b6_tank_online,
     pressure_upstream_bar |-> r.pressure_upstream_bar,
     reservoir_level_pct |-> r.reservoir_level_pct,
     water_temp_c |-> r.water_temp_c, weight_raw_kg |-> r.weight_raw_kg,
     estop_active |-> r.estop_active, contactor_on |-> r.contactor_on,
     mcb_on |-> r.mcb_on, vfd_fault |-> r.vfd_fault]

AllSafetySnapshots == {SensorSnapshot(o, r) : o \in OnlineFlags, r \in Readings}

\* One conditional append of _check_all / check_snapshot.
AlarmIf(cond, code, severity) ==
    IF cond THEN <<SafetyAlarm(code, severity)>> ELSE <<>>

\* check_snapshot: the alarms of a snapshot, in the order of the checks; no
\* check looks at an online flag.
check_snapshot(s) ==
    AlarmIf(s.pressure_upstream_bar > SAFETY_PRESSURE_MAX,
            "OVERPRESSURE", "emergency")
    \o AlarmIf(s.reservoir_level_pct < SAFETY_RESERVOIR_MIN,
               "LOW_RESERVOIR", "critical")
    \o AlarmIf(s.water_temp_c > SAFETY_TEMP_MAX, "TEMP_HIGH", "critical")
    \o AlarmIf(s.water_temp_c < SAFETY_TEMP_MIN, "TEMP_LOW", "critical")
    \o AlarmIf(s.weight_raw_kg > SAFETY_SCALE_MAX,
               "SCALE_OVERLOAD", "emergency")
    \o AlarmIf(s.estop_active, "ESTOP_ACTIVE", "emergency")
    \o AlarmIf(~s.contactor_on, "CONTACTOR_TRIP", "emergency")
    \o AlarmIf(~s.mcb_on, "MCB_TRIP", "emergency")
    \o AlarmIf(s.vfd_fault # 0, "VFD_FAULT", "critical")

\* _check_all up to the call of _process_alarms: every check is guarded by
\* the online flag of the bridge that delivers the reading.
check_all(s) ==
    AlarmIf(s.b4_scale_online /\ s.pressure_upstream_bar > SAFETY_PRESSURE_MAX,
            "OVERPRESSURE", "emergency")
    \o AlarmIf(s.b6_tank_online /\ s.reservoir_level_pct < SAFETY_RESERVOIR_MIN,
               "LOW_RESERVOIR", "critical")
    \o AlarmIf(s.b6_tank_online /\ s.water_temp_c > SAFETY_TEMP_MAX,
               "TEMP_HIGH", "critical")
    \o AlarmIf(s.b6_tank_online /\ s.water_temp_c < SAFETY_TEMP_MIN,
               "TEMP_LOW", "critical")
    \o AlarmIf(s.b4_scale_online /\ s.weight_raw_kg > SAFETY_SCALE_MAX,
               "SCALE_OVERLOAD", "emergency")
    \o AlarmIf(s.b5_gpio_online /\ s.estop_active, "ESTOP_ACTIVE", "emergency")
    \o AlarmIf(s.b5_gpio_online /\ ~s.contactor_on,
               "CONTACTOR_TRIP", "emergency")
    \o AlarmIf(s.b5_gpio_online /\ ~s.mcb_on, "MCB_TRIP", "emergency")
    \o AlarmIf(s.b2_vfd_online /\ s.vfd_fault # 0, "VFD_FAULT", "critical")

\* The codes of a collection of alarms.
Codes(alarms) == {alarms[i].code : i \in DOMAIN alarms}

ActiveCodes(m) == {a.code : a \in m.active}

\* _fire_callbacks: every registered callback is called with the alarm, in
\* the order of registration; what a callback raises is swallowed.
fire_callbacks(m, alarm) ==
    [m EXCEPT !.fired =
        @ \o [i \in 1..Len(m.callbacks) |->
                 [cb |-> m.callbacks[i], alarm |-> alarm]]]

\* _trigger_emergency_stop without the latch: hardware.emergency_stop is
\* called and nothing is remembered.
trigger_emergency_stop_NoLatch(m, alarm) == [m EXCEPT !.estops = @ + 1]

\* _trigger_emergency_stop: the latch is set and hardware.emergency_stop is
\* called; what it raises is swallowed.
trigger_emergency_stop(m, alarm) ==
    [m EXCEPT !.estop_triggered = TRUE, !.estops = @ + 1]

\* The loop of _process_alarms over new_alarms from position i on.
RECURSIVE RaiseAlarms(_, _, _)
RaiseAlarms(m, new_alarms, i) ==
    IF i > Len(new_alarms) THEN m
    ELSE LET alarm == new_alarms[i] IN
         IF alarm.code \in ActiveCodes(m) THEN RaiseAlarms(m, new_alarms, i + 1)
         ELSE LET m1 == fire_callbacks([m EXCEPT !.active = @ \cup {alarm}],
                                       alarm)
                  m2 == IF is_emergency(alarm) /\ ~m1.estop_triggered
                        THEN trigger_emergency_stop(m1, alarm)
                        ELSE m1
              IN RaiseAlarms(m2, new_alarms, i + 1)

\* _process_alarms that fires the callbacks for every alarm of the check,
\* new or not.
process_alarms_EveryTick(m, new_alarms) ==
    LET RECURSIVE FireAll(_, _)
        FireAll(x, i) ==
            IF i > Len(new_alarms) THEN x
            ELSE FireAll(fire_callbacks(x, new_alarms[i]), i + 1)
    IN FireAll([m EXCEPT !.active =
                    {a \in @ : a.code \in Codes(new_alarms)}
                    \cup {new_alarms[i] : i \in DOMAIN new_alarms}],
               1)

\* _process_alarms: the alarms whose code is no longer reported are dropped,
\* then the reported ones are raised.
process_alarms(m, new_alarms) ==
    RaiseAlarms([m EXCEPT !.active = {a \in @ : a.code \in Codes(new_alarms)}],
                new_alarms, 1)

\* The monitor at the start of one of its operations: the record of the
\* calls made by the previous one is dropped.
Fresh(m) == [m EXCEPT !.fired = <<>>, !.estops = 0, !.check = NoCheck]

\* TestStateMachine.abort
abort(e, reason) ==
    [e EXCEPT !.abort_requested = TRUE, !.abort_reason = reason,
              !.event = TRUE, !.otherFault = TRUE]

\* _on_safety_alarm, for the calls the monitor made to it: abort is called
\* when one of them carried an EMERGENCY alarm.
on_safety_alarm(e, m) ==
    IF \E i \in DOMAIN m.fired :
           m.fired[i].cb = OnSafetyAlarm /\ is_emergency(m.fired[i].alarm)
    THEN abort(e, "Safety alarm")
    ELSE e

\* hardware.emergency_stop: the drive is stopped and every valve closed.
HardwareEmergencyStop(hwOk, fails, divFails) ==
    LET r == close_all(vc, fails, divFails) IN
    /\ pump' = vfd_stop(pump, hwOk)
    /\ vc' = r.c
    /\ lastOp' = Op("close_all", "", r.ok, ~hwOk \/ ~r.ok \/ divFails)

\* SafetyMonitor.start
MonitorStart ==
    /\ ~mon.running
    /\ mon' = [Fresh(mon) EXCEPT !.running = TRUE, !.estop_triggered = FALSE]
    /\ UNCHANGED <<vc, lastOp, pump, env, snap, obs, reg, eng, db, clock, mq, dut, lora, frag,
                 tower, grav, results>>

\* SafetyMonitor.stop
MonitorStop ==
    /\ mon.running
    /\ mon' = [Fresh(mon) EXCEPT !.running = FALSE]
    /\ UNCHANGED <<vc, lastOp, pump, env, snap, obs, reg, eng, db, clock, mq, dut, lora, frag,
                 tower, grav, results>>

\* SafetyMonitor.on_alarm
OnAlarm(callback) ==
    /\ mon' = [Fresh(mon) EXCEPT !.callbacks = Append(@, callback)]
    /\ UNCHANGED <<vc, lastOp, pump, env, snap, obs, reg, eng, db, clock, mq, dut, lora, frag,
                 tower, grav, results>>

\* SafetyMonitor.clear_estop_latch
ClearEstopLatch ==
    /\ mon' = [Fresh(mon) EXCEPT !.estop_triggered = FALSE]
    /\ UNCHANGED <<vc, lastOp, pump, env, snap, obs, reg, eng, db, clock, mq, dut, lora, frag,
                 tower, grav, results>>

\* One round of _monitor_loop on the snapshot s the sensor manager holds:
\* _check_all, _process_alarms, the callbacks and the emergency stop.
WatchdogTick(s) ==
    LET m == process_alarms(Fresh(mon), check_all(s)) IN
    /\ mon.running
    /\ mon' = m
    /\ eng' = on_safety_alarm(eng, m)
    /\ IF m.estops > 0
       THEN \E hwOk \in BOOLEAN, fails \in EngineFailSets, divFails \in BOOLEAN :
                HardwareEmergencyStop(hwOk, fails, divFails)
       ELSE UNCHANGED <<vc, lastOp, pump>>
    /\ UNCHANGED <<env, snap, obs, reg, db, clock, mq, dut, lora, frag,
                 tower, grav, results>>

\* The online flag that guards the check of each alarm code in _check_all.
BridgeOf(code) ==
    CASE code \in {"OVERPRESSURE", "SCALE_OVERLOAD"} -> "b4_scale_online"
      [] code \in {"LOW_RESERVOIR", "TEMP_HIGH", "TEMP_LOW"} -> "b6_tank_online"
      [] code \in {"ESTOP_ACTIVE", "CONTACTOR_TRIP", "MCB_TRIP"} -> "b5_gpio_online"
      [] OTHER -> "b2_vfd_online"

\* The snapshots the watchdog is run on: the readings of at most one bridge
\* are out of range at a time, and any bridges are offline.
SafetySnapshots ==
    {SensorSnapshot(o, r) :
        o \in OnlineFlags,
        r \in {x \in Readings :
                 Cardinality({BridgeOf(c) : c \in Codes(check_snapshot(x))}) <= 1}}

\* The snapshots published during a run: every bridge is online, and the
\* upstream pressure or the water temperature goes over its limit.
RunSnapshots ==
    {SensorSnapshot([b2_vfd_online |-> TRUE, b4_scale_online |-> TRUE,
                     b5_gpio_online |-> TRUE, b6_tank_online |-> TRUE], r) :
        r \in {x \in Readings :
                 /\ Cardinality(Codes(check_snapshot(x))) <= 1
                 /\ Codes(check_snapshot(x)) \subseteq {"OVERPRESSURE", "TEMP_HIGH"}}}

(***************************************************************************)
(* Specification of a run under the watchdog: the engine's thread and the  *)
(* monitor's thread; abort is called by the alarm callback only.           *)
(***************************************************************************)

InitSafetyRun ==
    /\ vc = ValveControllerInit
    /\ lastOp = NoOp
    /\ pump = FALSE
    /\ env = [dut |-> TRUE, level |-> 85, backend |-> "real"]
    /\ snap = ReadAll
    /\ obs = "none"
    /\ reg = RegistryInit
    /\ eng \in {[EngineInit EXCEPT !.pc = "init", !.dut_mode = m] : m \in DutModes}
    /\ db = [status |-> "pending", notes |-> <<>>]
    /\ clock = 0
    /\ mon = [MonitorInit EXCEPT !.running = TRUE]
    /\ mq = QueueInit
    /\ LinkAndDutIdle

NextSafetyRun ==
    \/ EngineStep
    \/ SubmitManualDut
    \/ \E s \in RunSnapshots : WatchdogTick(s)

SpecSafetyRun == InitSafetyRun /\ [][NextSafetyRun]_vars

\* An EMERGENCY alarm is raised in this step, while the engine's thread is
\* alive.
EmergencyRaisedInRun ==
    /\ eng.pc # "done"
    /\ \E a \in mon'.active : is_emergency(a) /\ a.code \notin ActiveCodes(mon)

\* C11: every EMERGENCY alarm the watchdog raises while a run is in progress
\* sets the run's abort flag through the alarm callback, and a run whose
\* abort flag was set by the alarm callback ends in EMERGENCY_STOP.
C11_EmergencyAlarmAbortsRun ==
    /\ [][EmergencyRaisedInRun =>
             (eng'.abort_requested /\ eng'.abort_reason = "Safety alarm")]_vars
    /\ []((eng.pc = "done" /\ eng.abort_reason = "Safety alarm")
             => eng.state = "EMERGENCY_STOP")

(***************************************************************************)
(* Specification of the watchdog alone: it is started and stopped,         *)
(* callbacks are registered, the latch is cleared, and each round checks   *)
(* whatever snapshot the sensor manager holds.                             *)
(***************************************************************************)

\* AlarmCode
AlarmCodes ==
    {"OVERPRESSURE", "LOW_RESERVOIR", "TEMP_HIGH", "TEMP_LOW", "SCALE_OVERLOAD",
     "ESTOP_ACTIVE", "CONTACTOR_TRIP", "MCB_TRIP", "VFD_FAULT"}

\* At most this many callbacks are registered with the monitor.
MaxCallbacks == 2

\* The callbacks that get registered, besides the engine's.
TestCallbacks == {"cb1", "cb2"}

InitWatchdog == InitValves

NextWatchdog ==
    \/ MonitorStart
    \/ MonitorStop
    \/ \E cb \in TestCallbacks :
          Len(mon.callbacks) < MaxCallbacks /\ OnAlarm(cb)
    \/ ClearEstopLatch
    \/ \E s \in SafetySnapshots : WatchdogTick(s)

SpecWatchdog == InitWatchdog /\ [][NextWatchdog]_vars

\* An EMERGENCY alarm is raised in this step.
EmergencyRaised ==
    \E a \in mon'.active : is_emergency(a) /\ a.code \notin ActiveCodes(mon)

\* C12: a step of the watchdog calls the hardware emergency stop once, and
\* sets the latch, when it raises an EMERGENCY alarm while the latch is
\* clear; it calls it zero times otherwise, however many EMERGENCY alarms it
\* raises while the latch is set, and raising alarms never clears the latch.
C12_EmergencyStopOncePerLatch ==
    [][/\ mon'.estops = (IF EmergencyRaised /\ ~mon.estop_triggered
                         THEN 1 ELSE 0)
       /\ (mon'.estops > 0 => mon'.estop_triggered)
       /\ ((mon.estop_triggered /\ mon'.active # mon.active)
              => mon'.estop_triggered)]_vars

\* C12 witness: one round raised two EMERGENCY alarms with the latch clear
\* and called the hardware emergency stop once.
C12_Witness ==
    /\ mon.estops = 1 /\ mon.estop_triggered
    /\ Cardinality({a \in mon.active : is_emergency(a)}) >= 2

\* The number of registrations of a callback.
Registrations(m, cb) ==
    Cardinality({i \in DOMAIN m.callbacks : m.callbacks[i] = cb})

\* The number of calls of a callback with an alarm code in the last step.
Calls(m, cb, code) ==
    Cardinality({k \in DOMAIN m.fired :
                    m.fired[k].cb = cb /\ m.fired[k].alarm.code = code})

\* C14: in every step each registered callback is called exactly once for
\* every alarm code that goes from absent to present, and no callback is
\* called for a code that stays present, stays absent or is cleared.
C14_CallbacksOncePerRaise ==
    [][LET raised == ActiveCodes(mon') \ ActiveCodes(mon) IN
       /\ Len(mon'.fired) = Cardinality(raised) * Len(mon.callbacks)
       /\ \A code \in raised, i \in DOMAIN mon.callbacks :
             Calls(mon', mon.callbacks[i], code) =
                 Registrations(mon, mon.callbacks[i])]_vars

\* C14 witness: with two callbacks registered, a round raised one alarm and
\* called both, while another alarm stayed present and was not reported
\* again.
C14_Witness ==
    /\ Len(mon.callbacks) = 2 /\ Len(mon.fired) = 2
    /\ \E a \in mon.active :
          \A k \in DOMAIN mon.fired : mon.fired[k].alarm.code # a.code

(***************************************************************************)
(* Specification of the two evaluations of a snapshot, as functions of the *)
(* snapshot: check_snapshot, the pre-flight check, and _check_all, the     *)
(* watchdog's.                                                             *)
(***************************************************************************)

InitPreflight ==
    /\ vc = ValveControllerInit
    /\ lastOp = NoOp
    /\ pump = FALSE
    /\ env = [dut |-> FALSE, level |-> 85, backend |-> "real"]
    /\ snap = SnapshotInit
    /\ obs = "none"
    /\ reg = RegistryInit
    /\ eng = EngineInit
    /\ db = [status |-> "pending", notes |-> <<>>]
    /\ clock = 0
    /\ mon \in {[MonitorInit EXCEPT
                    !.check = [fn |-> "snapshot", snap |-> s, alarms |-> <<>>]] :
                s \in AllSafetySnapshots}
    /\ mq = QueueInit
    /\ LinkAndDutIdle

\* check_snapshot(snapshot)
CheckSnapshot ==
    /\ mon.check.fn = "snapshot"
    /\ mon' = [mon EXCEPT !.check.fn = "check_snapshot",
                          !.check.alarms = check_snapshot(mon.check.snap)]
    /\ UNCHANGED <<vc, lastOp, pump, env, snap, obs, reg, eng, db, clock, mq, dut, lora, frag,
                 tower, grav, results>>

\* The alarms _check_all hands to _process_alarms for the snapshot.
CheckAll ==
    /\ mon.check.fn = "snapshot"
    /\ mon' = [mon EXCEPT !.check.fn = "_check_all",
                          !.check.alarms = check_all(mon.check.snap)]
    /\ UNCHANGED <<vc, lastOp, pump, env, snap, obs, reg, eng, db, clock, mq, dut, lora, frag,
                 tower, grav, results>>

NextPreflight == CheckSnapshot \/ CheckAll

SpecPreflight == InitPreflight /\ [][NextPreflight]_vars

\* C13: neither the watchdog's check nor check_snapshot reports an alarm
\* whose reading comes from a bridge that the snapshot marks offline.
C13_OfflineBridgeRaisesNoAlarm ==
    mon.check.fn \in {"check_snapshot", "_check_all"}
    => \A i \in DOMAIN mon.check.alarms :
          mon.check.snap[BridgeOf(mon.check.alarms[i].code)]

(***************************************************************************)
(* Part 6: the link layer.  Sequence numbers are 16 bits wide; time is in  *)
(* whole seconds.                                                          *)
(***************************************************************************)

\* The width of the sequence field of a frame.
SEQ_MODULUS == 65536

\* Half the sequence space: the window replay protection accepts.
SEQ_WINDOW == 32768

\* The age beyond which a timestamp is stale, in seconds.
MAX_TIMESTAMP_AGE == 300

\* SequenceCounter.next: the value handed out and the counter after it.
seq_next(counter) == [seq |-> counter, counter |-> (counter + 1) % SEQ_MODULUS]

AbsDiff(a, b) == IF a >= b THEN a - b ELSE b - a

\* SequenceCounter.check_and_update that accepts whatever is not a
\* duplicate.
check_and_update_NoWindow(last_received, device_id, seq, now, timestamp) ==
    LET last == last_received[device_id] IN
    IF AbsDiff(now, timestamp) > MAX_TIMESTAMP_AGE
       \/ (last # NoSeq /\ (seq - last) % SEQ_MODULUS = 0)
    THEN [ok |-> FALSE, last_received |-> last_received]
    ELSE [ok |-> TRUE,
          last_received |-> [last_received EXCEPT ![device_id] = seq]]

\* SequenceCounter.check_and_update: the verdict and _last_received after
\* it.
check_and_update(last_received, device_id, seq, now, timestamp) ==
    LET last == last_received[device_id]
        diff == (seq - last) % SEQ_MODULUS
    IN
    IF AbsDiff(now, timestamp) > MAX_TIMESTAMP_AGE
    THEN [ok |-> FALSE, last_received |-> last_received]
    ELSE IF last # NoSeq /\ (diff = 0 \/ diff > SEQ_WINDOW)
    THEN [ok |-> FALSE, last_received |-> last_received]
    ELSE [ok |-> TRUE,
          last_received |-> [last_received EXCEPT ![device_id] = seq]]

(***************************************************************************)
(* Specification of replay protection alone: frames with sequence numbers  *)
(* around the ends of the window and timestamps around the limit arrive in *)
(* any order from either device.                                           *)
(***************************************************************************)

\* The local time of the checks.
Now == 1000

ReplaySeqs == {0, 1, 2, SEQ_WINDOW - 1, SEQ_WINDOW, SEQ_WINDOW + 1, SEQ_MODULUS - 1}

ReplayTimestamps ==
    {Now - MAX_TIMESTAMP_AGE - 1, Now - MAX_TIMESTAMP_AGE, Now,
     Now + MAX_TIMESTAMP_AGE, Now + MAX_TIMESTAMP_AGE + 1}

\* The replay check of receive_frame on a decoded frame.
ReplayCheck(device_id, seq, timestamp) ==
    LET r == check_and_update(mq.last_received, device_id, seq, Now, timestamp)
    IN
    /\ mq' = [mq EXCEPT
                !.last_received = r.last_received,
                !.last = [NoLast EXCEPT
                            !.op = "check_and_update",
                            !.frame = [device_id |-> device_id, seq |-> seq,
                                       timestamp |-> timestamp],
                            !.before = mq.last_received[device_id],
                            !.accepted = r.ok]]
    /\ UNCHANGED <<vc, lastOp, pump, env, snap, obs, reg, eng, db, clock, mon,
                 dut, lora, frag,
                 tower, grav, results>>

InitReplay == InitValves

NextReplay ==
    \E d \in Devices, s \in ReplaySeqs, ts \in ReplayTimestamps :
        ReplayCheck(d, s, ts)

SpecReplay == InitReplay /\ [][NextReplay]_vars

\* C16: a frame from a device with a stored last sequence is accepted
\* exactly when its sequence is 1 to 32768 ahead of the stored one modulo
\* 2^16 and its timestamp is within 300 s of the local time; an accepted
\* frame's sequence becomes the stored one and a rejected frame leaves it as
\* it was.
C16_ReplayWindow ==
    (mq.last.op = "check_and_update" /\ mq.last.before # NoSeq)
    => LET f == mq.last.frame
           diff == (f.seq - mq.last.before) % SEQ_MODULUS
       IN
       /\ mq.last.accepted <=>
             (/\ diff >= 1 /\ diff <= 32768
              /\ AbsDiff(Now, f.timestamp) <= 300)
       /\ mq.last_received[f.device_id] =
             (IF mq.last.accepted THEN f.seq ELSE mq.last.before)

\* C16 witness: a frame exactly 32768 ahead of the stored sequence, with a
\* timestamp exactly 300 s old, was accepted.
C16_Witness ==
    /\ mq.last.op = "check_and_update" /\ mq.last.before # NoSeq
    /\ (mq.last.frame.seq - mq.last.before) % SEQ_MODULUS = 32768
    /\ Now - mq.last.frame.timestamp = 300
    /\ mq.last.accepted

(***************************************************************************)
(* The message queue: senders, the dispatch thread, the receiver and the   *)
(* link monitor.                                                           *)
(***************************************************************************)

ACK_TIMEOUT == 3
MQ_MAX_RETRIES == 3

\* At most this many messages are created in the model's run.
MaxMessages == 2

\* At most this many frames are handed to send_func in the model's run.
MaxFrames == 4

\* At most this many frames are received in the model's run.
MaxInbound == 2

\* OutgoingMessage: age is the time since sent_at, signalled is
\* ack_received; was_sent and enq_offline remember that the record was handed
\* to send_func at least once and that it was created while the link was
\* offline.
OutgoingMessage(msg_id, link_online) ==
    [msg_id |-> msg_id, status |-> "pending", seq |-> 0, retries |-> 0,
     age |-> 0, signalled |-> FALSE, was_sent |-> FALSE,
     enq_offline |-> ~link_online]

\* dict[key] = value on a dict kept in insertion order.
DictSet(d, key, value) ==
    IF \E i \in DOMAIN d : d[i].seq = key
    THEN [i \in DOMAIN d |->
             IF d[i].seq = key THEN [seq |-> key, msg_id |-> value] ELSE d[i]]
    ELSE Append(d, [seq |-> key, msg_id |-> value])

\* dict.pop(key, None)
DictPop(d, key) == SelectSeq(d, LAMBDA e : e.seq # key)

\* MessageQueue.send
Send ==
    LET id == mq.msg_counter + 1 IN
    /\ Cardinality(DOMAIN mq.records) < MaxMessages
    /\ mq' = [mq EXCEPT
                !.msg_counter = id,
                !.records = [i \in DOMAIN mq.records \cup {id} |->
                                IF i = id
                                THEN OutgoingMessage(id, mq.link_online)
                                ELSE mq.records[i]],
                !.queue = Append(@, id),
                !.last = NoLast]
    /\ UNCHANGED <<vc, lastOp, pump, env, snap, obs, reg, eng, db, clock, mon,
                 dut, lora, frag,
                 tower, grav, results>>

\* _dispatch_message with the link offline: the record goes to the offline
\* queue.
dispatch_offline(q, id) ==
    [q EXCEPT !.records[id].status = "queued",
              !.offline_queue = Append(@, id)]

\* _dispatch_message with the link online, handing the frame the sequence
\* number of the previous one.
dispatch_online_ReuseSeq(q, id, success) ==
    LET seq == (q.counter + SEQ_MODULUS - 1) % SEQ_MODULUS
        q1 == [q EXCEPT !.records[id].seq = seq,
                        !.records[id].was_sent = TRUE,
                        !.frames = @ + 1]
    IN [q1 EXCEPT !.records[id].status = "sent",
                  !.pending_acks = DictSet(@, seq, id)]

\* _dispatch_message with the link online: the next sequence number is
\* taken, the frame is handed to send_func, and the record then waits for
\* its ACK, goes back to the head of the queue or fails.
dispatch_online(q, id, success) ==
    LET n == seq_next(q.counter)
        q1 == [q EXCEPT !.counter = n.counter,
                        !.high = IF n.seq > @ THEN n.seq ELSE @,
                        !.frames = @ + 1,
                        !.records[id].seq = n.seq,
                        !.records[id].was_sent = TRUE]
    IN
    IF success
    THEN [q1 EXCEPT !.records[id].status = "sent",
                    !.records[id].age = 0,
                    !.pending_acks = DictSet(@, n.seq, id)]
    ELSE IF q.records[id].retries + 1 < MQ_MAX_RETRIES
    THEN [q1 EXCEPT !.records[id].retries = @ + 1,
                    !.queue = <<id>> \o @]
    ELSE [q1 EXCEPT !.records[id].retries = @ + 1,
                    !.records[id].status = "failed",
                    !.records[id].signalled = TRUE]

\* The body of the loop of _check_timeouts for one timed-out entry, putting
\* the record back whatever its retry count.
timeout_record_NoLimit(q, e) ==
    [q EXCEPT !.pending_acks = DictPop(@, e.seq),
              !.records[e.msg_id].retries = @ + 1,
              !.queue = <<e.msg_id>> \o @]

\* The body of the loop of _check_timeouts for one timed-out entry.
timeout_record(q, e) ==
    LET q1 == [q EXCEPT !.pending_acks = DictPop(@, e.seq),
                        !.records[e.msg_id].retries = @ + 1]
    IN
    IF q1.records[e.msg_id].retries < MQ_MAX_RETRIES
    THEN [q1 EXCEPT !.queue = <<e.msg_id>> \o @]
    ELSE [q1 EXCEPT !.records[e.msg_id].status = "failed",
                    !.records[e.msg_id].signalled = TRUE]

RECURSIVE TimeoutLoop(_, _, _)
TimeoutLoop(q, timed_out, i) ==
    IF i > Len(timed_out) THEN q
    ELSE TimeoutLoop(timeout_record(q, timed_out[i]), timed_out, i + 1)

\* _check_timeouts: the entries sent more than ACK_TIMEOUT ago are collected
\* in the order of pending_acks and then handled one by one.
check_timeouts(q) ==
    LET timed_out == SelectSeq(q.pending_acks,
                               LAMBDA e : q.records[e.msg_id].age > ACK_TIMEOUT)
    IN TimeoutLoop(q, timed_out, 1)

\* One round of _dispatch_loop: the head of the queue, if there is one, is
\* popped and dispatched, and then the timeouts are checked.
DispatchRound(success) ==
    LET q0 == [mq EXCEPT !.last = [NoLast EXCEPT !.op = "dispatch"]] IN
    /\ mq.pc = "running"
    /\ (mq.queue # <<>> /\ mq.link_online) => mq.frames < MaxFrames
    /\ mq' = check_timeouts(
                IF mq.queue = <<>> THEN q0
                ELSE LET id == Head(mq.queue)
                         q1 == [q0 EXCEPT !.queue = Tail(@)]
                     IN IF ~mq.link_online THEN dispatch_offline(q1, id)
                        ELSE dispatch_online(q1, id, success))
    /\ UNCHANGED <<vc, lastOp, pump, env, snap, obs, reg, eng, db, clock, mon,
                 dut, lora, frag,
                 tower, grav, results>>

\* Time passes: two seconds more since every pending record was sent.
Advance ==
    /\ \E i \in DOMAIN mq.pending_acks :
          mq.records[mq.pending_acks[i].msg_id].age <= ACK_TIMEOUT
    /\ mq' = [mq EXCEPT
                !.records = [id \in DOMAIN mq.records |->
                    IF /\ \E i \in DOMAIN mq.pending_acks :
                             mq.pending_acks[i].msg_id = id
                       /\ mq.records[id].age <= ACK_TIMEOUT
                    THEN [mq.records[id] EXCEPT !.age = @ + 2]
                    ELSE mq.records[id]],
                !.last = NoLast]
    /\ UNCHANGED <<vc, lastOp, pump, env, snap, obs, reg, eng, db, clock, mon,
                 dut, lora, frag,
                 tower, grav, results>>

\* _handle_ack
handle_ack(q, ack_seq) ==
    IF \E i \in DOMAIN q.pending_acks : q.pending_acks[i].seq = ack_seq
    THEN LET i == CHOOSE k \in DOMAIN q.pending_acks :
                      q.pending_acks[k].seq = ack_seq
             id == q.pending_acks[i].msg_id
         IN [q EXCEPT !.pending_acks = DictPop(@, ack_seq),
                      !.records[id].status = "acked",
                      !.records[id].signalled = TRUE]
    ELSE q

\* receive_frame on a frame that decodes: replay protection, then the frame
\* is taken as an acknowledgement or handed to on_receive.  The payload is
\* kept as what the code reads of it: whether command ends in _ACK, whether
\* 'ack' is set, and ack_seq (NoSeq when absent).
ReceiveFrame(f) ==
    LET r == check_and_update(mq.last_received, f.device_id, f.seq, Now,
                              f.timestamp)
        q0 == [mq EXCEPT !.last_received = r.last_received,
                         !.last = [NoLast EXCEPT
                                      !.op = "receive", !.frame = f,
                                      !.before = mq.last_received[f.device_id],
                                      !.accepted = r.ok]]
    IN
    /\ mq' = IF ~r.ok THEN q0
             ELSE IF (f.ends_ack \/ f.ack) /\ f.ack_seq # NoSeq
             THEN handle_ack([q0 EXCEPT !.last.acked = TRUE], f.ack_seq)
             ELSE [q0 EXCEPT !.last.upstream = TRUE]
    /\ UNCHANGED <<vc, lastOp, pump, env, snap, obs, reg, eng, db, clock, mon,
                 dut, lora, frag,
                 tower, grav, results>>

RECURSIVE Flush(_)
Flush(q) ==
    IF q.offline_queue = <<>> THEN q
    ELSE LET id == Head(q.offline_queue) IN
         Flush([q EXCEPT !.offline_queue = Tail(@),
                         !.records[id].status = "pending",
                         !.records[id].retries = 0,
                         !.queue = Append(@, id)])

\* set_link_online
SetLinkOnline(online) ==
    LET q0 == [mq EXCEPT !.link_online = online, !.last = NoLast]
    IN
    /\ mq' = IF online /\ ~mq.link_online THEN Flush(q0) ELSE q0
    /\ UNCHANGED <<vc, lastOp, pump, env, snap, obs, reg, eng, db, clock, mon,
                 dut, lora, frag,
                 tower, grav, results>>

\* The frames the lab may deliver next: the next sequence number or a
\* repetition of the last one, a command that does or does not end in _ACK,
\* an 'ack' flag, and an ack_seq that is absent, that of a pending record or
\* one that is not pending.
InboundFrames ==
    LET last == mq.last_received[1]
        next == IF last = NoSeq THEN 0 ELSE (last + 1) % SEQ_MODULUS
    IN
    [device_id : {1},
     seq : {x \in {next, last} : x # NoSeq /\ x < MaxInbound},
     timestamp : {Now},
     ends_ack : BOOLEAN, ack : BOOLEAN,
     ack_seq : {NoSeq, mq.counter}
               \cup {mq.pending_acks[i].seq : i \in DOMAIN mq.pending_acks}]

\* A queue whose dispatch thread has been started: a new one, or one whose
\* earlier messages were each handed to send_func MQ_MAX_RETRIES times and
\* never acknowledged, and whose counter is at its last value.
InitQueue ==
    /\ vc = ValveControllerInit
    /\ lastOp = NoOp
    /\ pump = FALSE
    /\ env = [dut |-> FALSE, level |-> 85, backend |-> "real"]
    /\ snap = SnapshotInit
    /\ obs = "none"
    /\ reg = RegistryInit
    /\ eng = EngineInit
    /\ db = [status |-> "pending", notes |-> <<>>]
    /\ clock = 0
    /\ mon = MonitorInit
    /\ mq \in {[QueueInit EXCEPT !.pc = "running", !.counter = c,
                                 !.msg_counter = c \div MQ_MAX_RETRIES,
                                 !.high = c - 1] :
               c \in {0, SEQ_MODULUS - 1}}
    /\ LinkAndDutIdle

\* The acknowledgements the lab may deliver next: a fresh frame whose
\* command ends in _ACK and whose ack_seq is that of a pending record.
AckFrames ==
    {f \in InboundFrames :
        /\ f.seq # mq.last_received[1] /\ f.ends_ack /\ ~f.ack
        /\ \E i \in DOMAIN mq.pending_acks : mq.pending_acks[i].seq = f.ack_seq}

NextQueue ==
    \/ Send
    \/ \E success \in BOOLEAN : DispatchRound(success)
    \/ Advance
    \/ \E f \in AckFrames : ReceiveFrame(f)

SpecQueue == InitQueue /\ [][NextQueue]_vars

\* The same with a link that goes offline and comes back.
NextLink ==
    \/ NextQueue
    \/ \E online \in BOOLEAN : SetLinkOnline(online)

SpecLink == InitQueue /\ [][NextLink]_vars

(***************************************************************************)
(* Specification of the receiving side: messages are sent and dispatched,  *)
(* and frames of every kind arrive.                                        *)
(***************************************************************************)

NextReceive ==
    \/ Send
    \/ \E success \in BOOLEAN : DispatchRound(success)
    \/ \E f \in InboundFrames : ReceiveFrame(f)

SpecReceive == InitQueue /\ [][NextReceive]_vars

(***************************************************************************)
(* Properties of the message queue.                                        *)
(***************************************************************************)

\* The step hands a frame to send_func: the frame of the record at the head
\* of the queue, with the sequence number the record holds afterwards.
Transmitted == mq'.frames = mq.frames + 1
TxId == Head(mq.queue)
TxSeq == mq'.records[TxId].seq

\* C15 as stated: every frame handed to send_func, a retransmission
\* included, carries a sequence number strictly greater than every sequence
\* number used before.
C15_SequenceStrictlyIncreasing ==
    [][Transmitted => TxSeq > mq.high]_vars

\* C15 amended: every frame handed to send_func, a retransmission included,
\* carries the value of the 16-bit counter, which then moves to its
\* successor modulo 65536; the number is greater than every number used
\* before as long as the counter has not wrapped from 65535 to 0, and it is
\* held by no other record of the run.
C15_SequenceIncreasesModulo ==
    [][Transmitted =>
          /\ TxSeq = mq.counter
          /\ mq'.counter = (TxSeq + 1) % 65536
          /\ (TxSeq > mq.high \/ mq.high = 65535)
          /\ \A id \in DOMAIN mq.records :
                (id # TxId /\ mq.records[id].was_sent)
                   => mq.records[id].seq # TxSeq]_vars

\* C15 witness: a record was handed to send_func again after a timeout, and
\* its frame carries sequence number 0 after 65535 was used.
C15_Witness ==
    /\ mq.high = 65535
    /\ \E id \in DOMAIN mq.records :
          /\ mq.records[id].retries > 0 /\ mq.records[id].status = "sent"
          /\ mq.records[id].seq = 0

\* C17: an accepted frame whose command ends in _ACK, or which carries an
\* ack_seq, is handled as an acknowledgement (no pending entry is left under
\* that ack_seq) and is not passed to the upstream handler; every other
\* accepted frame is passed to the upstream handler.
C17_AckOrUpstream ==
    (mq.last.op = "receive" /\ mq.last.accepted) =>
        IF mq.last.frame.ends_ack \/ mq.last.frame.ack_seq # NoSeq
        THEN /\ mq.last.acked /\ ~mq.last.upstream
             /\ \A i \in DOMAIN mq.pending_acks :
                   mq.pending_acks[i].seq # mq.last.frame.ack_seq
        ELSE mq.last.upstream /\ ~mq.last.acked

\* The record is in the send queue, or waits for its ACK.
InQueue(q, id) == \E i \in DOMAIN q.queue : q.queue[i] = id
Pending(q, id) == \E i \in DOMAIN q.pending_acks : q.pending_acks[i].msg_id = id

\* C18: a record waiting for an ACK stays waiting, with its retry count,
\* until it is acknowledged or a round of the dispatch loop finds it sent
\* more than 3 s ago; that round adds one to its retry count and puts it back
\* into the queue while the count is below 3, and marks it FAILED and signals
\* its completion when the count reaches 3.  A send that fails counts the
\* same way.  A FAILED record is in no queue and never changes again, so it
\* is never transmitted again.
C18_TimeoutRetriesThenFails ==
    [][\A id \in DOMAIN mq.records :
          LET r == mq.records[id]
              r2 == mq'.records[id]
              exhausted == /\ r2.status = "failed" /\ r2.signalled
                           /\ r2.retries = 3
                           /\ ~InQueue(mq', id) /\ ~Pending(mq', id)
          IN
          /\ Pending(mq, id) =>
                IF mq'.last.op = "dispatch" /\ r.age > 3
                THEN /\ r2.retries = r.retries + 1
                     /\ IF r2.retries < 3
                        THEN /\ InQueue(mq', id) /\ ~Pending(mq', id)
                             /\ r2.status = "sent" /\ ~r2.signalled
                        ELSE exhausted
                ELSE \/ Pending(mq', id) /\ r2.retries = r.retries
                     \/ r2.status = "acked"
          /\ (Transmitted /\ id = TxId) =>
                \/ Pending(mq', id) /\ r2.retries = r.retries
                \/ /\ r2.retries = r.retries + 1
                   /\ IF r2.retries < 3 THEN InQueue(mq', id) ELSE exhausted
          /\ r.status = "failed" =>
                /\ r2 = r
                /\ ~InQueue(mq, id) /\ ~Pending(mq, id)
                /\ \A i \in DOMAIN mq.offline_queue : mq.offline_queue[i] # id
       ]_vars

\* C18 witness: a record was handed to send_func three times, each time
\* successfully, was never acknowledged, and the last round of the dispatch
\* loop marked it FAILED.
C18_Witness ==
    /\ mq.last.op = "dispatch"
    /\ mq.frames = 3
    /\ \E id \in DOMAIN mq.records :
          /\ mq.records[id].status = "failed" /\ mq.records[id].signalled
          /\ mq.records[id].retries = 3 /\ mq.records[id].age > 3

\* C19: a message enqueued while the link is offline is not transmitted
\* while it is offline, and it is transmitted for the first time only when
\* every message enqueued offline before it has been transmitted.
C19_OfflineMessagesKeepOrder ==
    [][(Transmitted /\ mq.records[TxId].enq_offline) =>
          /\ mq.link_online
          /\ ~mq.records[TxId].was_sent =>
                \A id \in DOMAIN mq.records :
                   (id < TxId /\ mq.records[id].enq_offline)
                      => mq.records[id].was_sent]_vars

\* The position of a record in the send queue.
QueueIndex(q, id) == CHOOSE i \in DOMAIN q.queue : q.queue[i] = id

\* C20: frames are transmitted in sequence-number order, and the records a
\* round of the dispatch loop puts back into the queue after an ACK timeout
\* stand there in the order in which they were enqueued at first, so that
\* they are retransmitted in that order.
C20_RequeueKeepsOrder ==
    [][/\ Transmitted => TxSeq = mq.counter
       /\ mq'.last.op = "dispatch" =>
             \A a, b \in DOMAIN mq.records :
                (/\ a < b
                 /\ Pending(mq, a) /\ InQueue(mq', a)
                 /\ Pending(mq, b) /\ InQueue(mq', b))
                   => QueueIndex(mq', a) < QueueIndex(mq', b)]_vars

(***************************************************************************)
(* Properties of the engine's states and of its error handling.            *)
(***************************************************************************)

\* C24: once the pre-check has failed the engine enters neither LINE_SELECT
\* nor PUMP_START, opens no valve and does not start the pump, and when its
\* thread has ended it is in EMERGENCY_STOP and the run is stored as aborted
\* with notes that contain the cause of the failure.
C24_PreCheckFailureAborts ==
    [][eng'.exc = "PreCheckError" =>
          /\ eng'.state \in {"IDLE", "PRE_CHECK", "EMERGENCY_STOP"}
          /\ \A v \in ALL_VALVES : vc'.valve_states[v] => vc.valve_states[v]
          /\ pump' => pump
          /\ eng'.pc = "done" =>
                /\ eng'.state = "EMERGENCY_STOP"
                /\ Len(eng'.reason) = 2 /\ eng'.reason[2] # ""
                /\ db'.status = "aborted"
                /\ \E i \in DOMAIN db'.notes : db'.notes[i] = eng'.reason[2]
       ]_vars

C26_ReasonNamesCause ==
    (eng.pc = "done" /\ eng.state = "EMERGENCY_STOP") =>
        /\ eng.reason # <<>>
        /\ (eng.exc = "AbortError" /\ eng.abort_requested) =>
              eng.reason = <<eng.abort_reason>>

\* C27: an engine that has entered EMERGENCY_STOP has issued the pump
\* emergency stop and close_all, has set the tower light to ESTOP and has
\* called abort_test, whichever of these calls failed.
C27_ShutdownStepsIssued ==
    (eng.pc = "done" /\ eng.state = "EMERGENCY_STOP") =>
        {"vfd.emergency_stop", "valves.close_all",
         "tower.set_pattern(ESTOP)", "abort_test"} \subseteq eng.issued

\* C28: when the engine's thread has ended, the stored status is completed
\* for COMPLETE and aborted for EMERGENCY_STOP.
C28_StatusMatchesTerminalState ==
    (eng.pc = "done" /\ eng.state \in Terminal) =>
        db.status = IF eng.state = "COMPLETE" THEN "completed" ELSE "aborted"

\* The states of a Q-point, in their order.
PointOrder ==
    <<"FLOW_STABILIZE", "TARE_SCALE", "MEASURE", "CALCULATE", "DRAIN",
      "NEXT_POINT">>

\* C30: the engine's state changes only along IDLE, PRE_CHECK, LINE_SELECT,
\* PUMP_START, then for the Q-points in order FLOW_STABILIZE, TARE_SCALE,
\* MEASURE, CALCULATE, DRAIN, NEXT_POINT, then COMPLETE after the last
\* Q-point, or from one of these states into EMERGENCY_STOP.
C30_StatesInOrder ==
    [][LET s == eng.state
           t == eng'.state
       IN
       /\ eng'.q_idx # eng.q_idx =>
             /\ eng'.q_idx = eng.q_idx + 1 /\ eng'.q_idx < NumQPoints
             /\ t = "NEXT_POINT"
       /\ s # t =>
             \/ t = "EMERGENCY_STOP"
             \/ <<s, t>> \in {<<"IDLE", "PRE_CHECK">>,
                              <<"PRE_CHECK", "LINE_SELECT">>,
                              <<"LINE_SELECT", "PUMP_START">>}
             \/ s = "PUMP_START" /\ t = "FLOW_STABILIZE" /\ eng.q_idx = 0
             \/ \E i \in 1..5 : s = PointOrder[i] /\ t = PointOrder[i + 1]
             \/ s = "NEXT_POINT" /\ t = "FLOW_STABILIZE" /\ eng.q_idx > 0
             \/ s = "NEXT_POINT" /\ t = "COMPLETE"
                   /\ eng.q_idx = NumQPoints - 1
      ]_vars

\* C30 witness: a run has gone through every Q-point and is COMPLETE.
C30_Witness ==
    /\ eng.pc = "done" /\ eng.state = "COMPLETE"
    /\ eng.q_idx = NumQPoints - 1 /\ db.status = "completed"

(***************************************************************************)
(* Manual DUT entry (DUTInterface in MANUAL mode).                         *)
(***************************************************************************)

\* The totalizer values an operator may type in, in litres.
DutValues == {-5, 0, 10, 20, 30}

\* read_before in manual mode: wait for the operator's entry.
read_before ==
    /\ dut' = [dut EXCEPT !.state = "WAITING_BEFORE", !.result = "none"]
    /\ UNCHANGED <<vc, lastOp, pump, env, snap, obs, reg, eng, db, clock,
                   mon, mq, lora, frag,
                 tower, grav, results>>

\* read_after in manual mode: wait for the operator's entry.
read_after ==
    /\ dut' = [dut EXCEPT !.state = "WAITING_AFTER", !.result = "none"]
    /\ UNCHANGED <<vc, lastOp, pump, env, snap, obs, reg, eng, db, clock,
                   mon, mq, lora, frag,
                 tower, grav, results>>

\* set_before_reading(value): a negative value is refused, any other value
\* replaces the before reading, whatever the state and the after reading.
set_before_reading(value) ==
    /\ dut' = IF value < 0
              THEN [dut EXCEPT !.result = "rejected"]
              ELSE [dut EXCEPT !.before = value, !.timestamp_before = Now,
                               !.state = "MEASURING", !.result = "accepted"]
    /\ UNCHANGED <<vc, lastOp, pump, env, snap, obs, reg, eng, db, clock,
                   mon, mq, lora, frag,
                 tower, grav, results>>

\* set_after_reading(value): a value below the before reading is refused.
set_after_reading(value) ==
    /\ dut' = IF value < dut.before
              THEN [dut EXCEPT !.result = "rejected"]
              ELSE [dut EXCEPT !.after = value, !.timestamp_after = Now,
                               !.state = "COMPLETE", !.result = "accepted"]
    /\ UNCHANGED <<vc, lastOp, pump, env, snap, obs, reg, eng, db, clock,
                   mon, mq, lora, frag,
                 tower, grav, results>>

\* reset(), for the next Q-point.
DutReset ==
    /\ dut # DutInit
    /\ dut' = DutInit
    /\ UNCHANGED <<vc, lastOp, pump, env, snap, obs, reg, eng, db, clock,
                   mon, mq, lora, frag,
                 tower, grav, results>>

InitDut == InitValves

NextDut ==
    \/ read_before
    \/ read_after
    \/ \E v \in DutValues : set_before_reading(v)
    \/ \E v \in DutValues : set_after_reading(v)
    \/ DutReset

SpecDut == InitDut /\ [][NextDut]_vars

\* C29: once an after reading has been entered, the interface holds
\* after >= before >= 0, and a refused entry leaves the readings, the
\* timestamps and the state as they were.
C29_AfterNotBelowBefore ==
    /\ dut.before >= 0
    /\ dut.timestamp_after # 0 => dut.after >= dut.before

\* The part of C29 about refused entries.
C29_RejectedLeavesUnchanged ==
    [][dut'.result = "rejected" => dut' = [dut EXCEPT !.result = "rejected"]
      ]_vars

(***************************************************************************)
(* LoRa handler: registered handlers and the dispatch of a received        *)
(* message.                                                                *)
(***************************************************************************)

\* The commands the lab sends that the model follows.
LoraCommands == {"START_TEST", "EMERGENCY_STOP", "RESULT_REQUEST"}

\* The callbacks a user of the handler may register.
Callbacks == {"h1", "h2"}

\* The longest list of handlers of one command.
MaxHandlers == 2

\* _register_handler(command, callback): appended to the command's list.
RegisterHandler(command, callback) ==
    /\ Len(lora.handlers[command]) < MaxHandlers
    /\ lora' = [lora EXCEPT !.handlers[command] = Append(@, callback)]
    /\ UNCHANGED <<vc, lastOp, pump, env, snap, obs, reg, eng, db, clock,
                   mon, mq, dut, frag,
                 tower, grav, results>>

\* The calls of the handlers of one message, in the order of the list; a
\* handler that raises is logged and the loop goes on.
HandlerCalls(handlers) ==
    [i \in 1..Len(handlers) |-> [call |-> "handler", what |-> handlers[i]]]

\* The automatic reply to a command: send_start_test_ack or
\* send_emergency_ack, none for the other commands.
AutoAck(command) ==
    IF command = "START_TEST"
    THEN <<[call |-> "send", what |-> "START_TEST_ACK"]>>
    ELSE IF command = "EMERGENCY_STOP"
    THEN <<[call |-> "send", what |-> "EMERGENCY_ACK"]>>
    ELSE <<>>

\* _dispatch_incoming(asp_frame): the handlers of the command are called,
\* then the automatic reply is sent.  calls is what this dispatch did, in
\* order, after the message itself.
DispatchIncoming(command) ==
    /\ lora' = [lora EXCEPT !.calls =
                   <<[call |-> "received", what |-> command]>>
                   \o HandlerCalls(lora.handlers[command])
                   \o AutoAck(command)]
    /\ UNCHANGED <<vc, lastOp, pump, env, snap, obs, reg, eng, db, clock,
                   mon, mq, dut, frag,
                 tower, grav, results>>

InitLora == InitValves

NextLora ==
    \/ \E c \in LoraCommands, h \in Callbacks : RegisterHandler(c, h)
    \/ \E c \in LoraCommands : DispatchIncoming(c)

SpecLora == InitLora /\ [][NextLora]_vars

\* C21: in the dispatch of a received START_TEST or EMERGENCY_STOP the
\* acknowledgement is sent, and it is sent before any handler of the
\* message is called.
C21_AckBeforeHandlers ==
    LET calls == lora.calls
    IN
    (calls # <<>> /\ calls[1].what \in {"START_TEST", "EMERGENCY_STOP"}) =>
        /\ \E i \in DOMAIN calls : calls[i].call = "send"
        /\ \A i, j \in DOMAIN calls :
              (calls[i].call = "send" /\ calls[j].call = "handler") => i < j

(***************************************************************************)
(* Fragmentation and reassembly of frames on the LoRa link.                *)
(*                                                                         *)
(* A byte string is a sequence of slices [frame, lo, hi]: the bytes lo..hi *)
(* (counted from 1) of the frame of that name.  Adjacent slices that       *)
(* continue one another are one slice, so a byte string has one            *)
(* representation and equals a whole frame only if it is its single slice  *)
(* 1..len.                                                                 *)
(***************************************************************************)

MAX_LORA_PAYLOAD == 255
FRAGMENT_HEADER_SIZE == 3
MAX_FRAGMENT_DATA == MAX_LORA_PAYLOAD - FRAGMENT_HEADER_SIZE

\* _frag_id_counter is kept in one byte (& 0xFF).
FRAG_ID_MODULUS == 256

\* FragmentReassembler(timeout=10.0), in seconds.
REASSEMBLY_TIMEOUT == 10

\* The bytes of the frame named id, of length len.
FrameBytes(id, len) ==
    IF len = 0 THEN <<>> ELSE <<[frame |-> id, lo |-> 1, hi |-> len]>>

RECURSIVE ByteLen(_)
ByteLen(b) ==
    IF b = <<>> THEN 0 ELSE Head(b).hi - Head(b).lo + 1 + ByteLen(Tail(b))

\* b[offset : offset + n] of Python.
RECURSIVE PySlice(_, _, _)
PySlice(b, offset, n) ==
    IF b = <<>> \/ n <= 0 THEN <<>>
    ELSE LET h == Head(b)
             l == h.hi - h.lo + 1
         IN IF offset >= l THEN PySlice(Tail(b), offset - l, n)
            ELSE LET take == IF n < l - offset THEN n ELSE l - offset
                 IN <<[h EXCEPT !.lo = h.lo + offset,
                                !.hi = h.lo + offset + take - 1]>>
                    \o PySlice(Tail(b), 0, n - take)

\* a + b of Python on byte strings.
Concat(a, b) ==
    IF a = <<>> THEN b
    ELSE IF b = <<>> THEN a
    ELSE LET x == a[Len(a)]
             y == Head(b)
         IN IF x.frame = y.frame /\ y.lo = x.hi + 1
            THEN SubSeq(a, 1, Len(a) - 1) \o <<[x EXCEPT !.hi = y.hi]>>
                 \o Tail(b)
            ELSE a \o b

\* b''.join(parts[i] for i in range(total)): parts is indexed from 0.
RECURSIVE JoinParts(_, _)
JoinParts(parts, total) ==
    IF total = 0 THEN <<>>
    ELSE Concat(JoinParts(parts, total - 1), parts[total - 1])

\* fragment with chunks of MAX_LORA_PAYLOAD bytes taken every
\* MAX_FRAGMENT_DATA bytes.
fragment_WholePayloadChunks(frame, frag_id) ==
    IF ByteLen(frame) <= MAX_LORA_PAYLOAD
    THEN {[frag_id |-> frag_id, frag_index |-> 0, total_fragments |-> 1,
           data |-> frame]}
    ELSE LET n == (ByteLen(frame) + MAX_FRAGMENT_DATA - 1)
                      \div MAX_FRAGMENT_DATA
         IN {[frag_id |-> frag_id, frag_index |-> i, total_fragments |-> n,
              data |-> PySlice(frame, i * MAX_FRAGMENT_DATA,
                               MAX_LORA_PAYLOAD)] : i \in 0..(n - 1)}

\* fragment(frame, frag_id): one fragment for a frame of at most
\* MAX_LORA_PAYLOAD bytes, else chunks of MAX_FRAGMENT_DATA bytes, taken at
\* the offsets 0, MAX_FRAGMENT_DATA, ... below the frame's length.
fragment(frame, frag_id) ==
    IF ByteLen(frame) <= MAX_LORA_PAYLOAD
    THEN {[frag_id |-> frag_id, frag_index |-> 0, total_fragments |-> 1,
           data |-> frame]}
    ELSE LET n == (ByteLen(frame) + MAX_FRAGMENT_DATA - 1)
                      \div MAX_FRAGMENT_DATA
         IN {[frag_id |-> frag_id, frag_index |-> i, total_fragments |-> n,
              data |-> PySlice(frame, i * MAX_FRAGMENT_DATA,
                               MAX_FRAGMENT_DATA)] : i \in 0..(n - 1)}

\* FragmentReassembler.add(frag) at time now: the buffers afterwards and
\* the frame returned.  A group holds its parts by index, the total of its
\* first fragment and the time that fragment was seen.  When the group has
\* as many parts as its total but not the indices 0..total-1, the join
\* raises KeyError after the fragment was stored.
add(buffers, f, now) ==
    LET fid == f.frag_id
        group == IF fid \in DOMAIN buffers THEN buffers[fid]
                 ELSE [parts |-> <<>>, total |-> f.total_fragments,
                       timestamp |-> now]
        parts == [i \in DOMAIN group.parts \cup {f.frag_index} |->
                     IF i = f.frag_index THEN f.data ELSE group.parts[i]]
        stored == [g \in DOMAIN buffers \cup {fid} |->
                      IF g = fid THEN [group EXCEPT !.parts = parts]
                      ELSE buffers[g]]
    IN
    IF f.total_fragments = 1
    THEN [buffers |-> buffers, frame |-> [some |-> TRUE, data |-> f.data],
          raised |-> FALSE]
    ELSE IF Cardinality(DOMAIN parts) # group.total
    THEN [buffers |-> stored, frame |-> NoFrame, raised |-> FALSE]
    ELSE IF DOMAIN parts # 0..(group.total - 1)
    THEN [buffers |-> stored, frame |-> NoFrame, raised |-> TRUE]
    ELSE [buffers |-> [g \in DOMAIN buffers \ {fid} |-> buffers[g]],
          frame |-> [some |-> TRUE, data |-> JoinParts(parts, group.total)],
          raised |-> FALSE]

\* FragmentReassembler.cleanup_stale() at time now.
cleanup_stale(buffers, now) ==
    [g \in {x \in DOMAIN buffers :
              ~(now - buffers[x].timestamp > REASSEMBLY_TIMEOUT)}
        |-> buffers[g]]

\* The lengths of the frames that are transmitted.
FrameLens == {100, 255, 256, 504, 505}

\* At most this many frames are transmitted.
MaxGroups == 2

\* _transmit_frame(frame_bytes) of the sender: the next fragment id, and
\* the frame's fragments go on the air.
TransmitFrame(len) ==
    /\ Len(frag.sent) < MaxGroups
    /\ LET id == (frag.counter + 1) % FRAG_ID_MODULUS
           name == Len(frag.sent) + 1
       IN frag' = [frag EXCEPT
                     !.counter = id,
                     !.sent = Append(@, len),
                     !.air = @ \cup fragment(FrameBytes(name, len), id)]
    /\ UNCHANGED <<vc, lastOp, pump, env, snap, obs, reg, eng, db, clock,
                   mon, mq, dut, lora,
                   tower, grav, results>>

\* One round of _receive_loop that reads a LORA_RX line with fragment f:
\* add, the frame handed on if there is one, then cleanup_stale; an
\* exception of add is logged and ends the round.
ReceiveFragment(f) ==
    /\ f \in frag.air
    /\ LET r == add(frag.buffers, f, frag.now)
       IN frag' = [frag EXCEPT
                     !.air = @ \ {f},
                     !.buffers = IF r.raised THEN r.buffers
                                 ELSE cleanup_stale(r.buffers, frag.now),
                     !.rx_index = f.frag_index,
                     !.out = r.frame]
    /\ UNCHANGED <<vc, lastOp, pump, env, snap, obs, reg, eng, db, clock,
                   mon, mq, dut, lora,
                   tower, grav, results>>

\* The receive loop reads no line for this many seconds (rounds of 0.5 s
\* that end in "continue").
IdleSeconds == 6

\* At most this many idle periods.
MaxIdle == 2

\* Rounds of _receive_loop in which _recv_line returns nothing: time
\* passes, cleanup_stale is not reached.
ReceiveLoopIdle ==
    /\ frag.idle < MaxIdle
    /\ frag' = [frag EXCEPT !.now = @ + IdleSeconds, !.idle = @ + 1]
    /\ UNCHANGED <<vc, lastOp, pump, env, snap, obs, reg, eng, db, clock,
                   mon, mq, dut, lora,
                   tower, grav, results>>

\* One round of _receive_loop that reads a line which is JSON but no
\* LORA_RX event: only cleanup_stale runs.
ReceiveOtherLine ==
    /\ cleanup_stale(frag.buffers, frag.now) # frag.buffers
    /\ frag' = [frag EXCEPT !.buffers = cleanup_stale(@, frag.now),
                            !.out = NoFrame]
    /\ UNCHANGED <<vc, lastOp, pump, env, snap, obs, reg, eng, db, clock,
                   mon, mq, dut, lora,
                   tower, grav, results>>

InitFragments ==
    /\ vc = ValveControllerInit
    /\ lastOp = NoOp
    /\ pump = FALSE
    /\ env = [dut |-> FALSE, level |-> 85, backend |-> "real"]
    /\ snap = SnapshotInit
    /\ obs = "none"
    /\ reg = RegistryInit
    /\ eng = EngineInit
    /\ db = [status |-> "pending", notes |-> <<>>]
    /\ clock = 0
    /\ mon = MonitorInit
    /\ mq = QueueInit
    /\ dut = DutInit
    /\ lora = LoraInit
    /\ frag \in {[FragInit EXCEPT !.counter = c] :
                   c \in {0, FRAG_ID_MODULUS - 2}}
    /\ tower = TowerInit
    /\ grav = GravInit
    /\ results = ResultsInit

\* Fragments delivered in any order, with no pause on the link.
NextReassembly ==
    \/ \E len \in FrameLens : TransmitFrame(len)
    \/ \E f \in frag.air : ReceiveFragment(f)

SpecReassembly == InitFragments /\ [][NextReassembly]_vars

\* The same, with pauses and with lines that carry no fragment.
NextStale ==
    \/ \E len \in FrameLens : TransmitFrame(len)
    \/ \E f \in frag.air : ReceiveFragment(f)
    \/ ReceiveLoopIdle
    \/ ReceiveOtherLine

SpecStale == InitFragments /\ [][NextStale]_vars

\* The fragment read by this step, if it is a round that read one.
Received == frag.air \ frag'.air

\* The name of the frame a fragment's bytes come from.
FrameOf(f) == Head(f.data).frame

\* C22: whatever the order in which the fragments of the transmitted frames
\* are delivered, a round that reads a fragment returns the whole frame the
\* fragment belongs to if it was the frame's last missing fragment, and no
\* frame otherwise; so each frame is returned once, unchanged.
C22_ReassemblyYieldsFrame ==
    [][\A f \in Received :
          frag'.out =
             IF \E g \in frag'.air : g.frag_id = f.frag_id
             THEN NoFrame
             ELSE [some |-> TRUE,
                   data |-> FrameBytes(FrameOf(f), frag.sent[FrameOf(f)])]
      ]_vars

\* C22 witness: a frame of three fragments has been returned whole by the
\* round that read its first fragment, the other two having arrived before.
C22_Witness ==
    /\ frag.out.some /\ frag.rx_index = 0
    /\ ByteLen(frag.out.data) > 2 * MAX_FRAGMENT_DATA
    /\ frag.out.data = FrameBytes(Head(frag.out.data).frame,
                                  ByteLen(frag.out.data))

\* C23: a fragment that arrives when its group's first fragment was seen
\* more than 10 s ago does not complete that group: the round that reads it
\* returns no frame.
C23_StaleGroupNeverCompletes ==
    [][\A f \in Received :
          (/\ f.frag_id \in DOMAIN frag.buffers
           /\ frag.now - frag.buffers[f.frag_id].timestamp
                 > REASSEMBLY_TIMEOUT)
          => ~frag'.out.some
      ]_vars

(***************************************************************************)
(* Further properties of the engine.                                       *)
(***************************************************************************)

\* C31: within MEASURE the "before" reading is followed by the start of the
\* collection, the wait for the weight by the "after" reading of the DUT,
\* and that reading by stop_collection_and_measure.
C31_AfterReadingBeforeStop ==
    [][/\ (eng.pc = "dut_before" /\ eng'.pc \notin {"dut_before", "estop"})
             => eng'.pc = "measure_poll"
       /\ (eng.pc = "measure_poll" /\ eng'.pc \notin {"measure_poll", "estop"})
             => eng'.pc = "dut_after"
       /\ (eng.pc = "dut_after" /\ eng'.pc \notin {"dut_after", "estop"})
             => eng'.pc = "measure_stop"
      ]_vars

\* C34: once the engine's state is COMPLETE or EMERGENCY_STOP it does not
\* change again.
C34_TerminalStatesFinal ==
    [][eng.state \in Terminal => eng'.state = eng.state]_vars

\* C39: once the watchdog has executed the hardware emergency stop during a
\* run and its alarm has set the run's abort flag, no step before the end
\* of the run starts the pump or opens a valve.
C39_NothingStartsAfterHardwareStop ==
    [][(mon.estop_triggered /\ eng.abort_requested /\ eng.pc # "done") =>
          /\ pump' => pump
          /\ \A v \in ALL_VALVES : vc'.valve_states[v] => vc.valve_states[v]
      ]_vars

(***************************************************************************)
(* The results of a run: CALCULATE for each Q-point, then COMPLETE.        *)
(***************************************************************************)

\* The measurements handed to process_q_point_result: whether the
\* gravimetric measurement succeeded, the net weight (kg) and the volume the
\* DUT showed (L).  The density is taken as 1 kg/L.
Measurements ==
    [success : BOOLEAN, net_weight_kg : {0, 100, 200},
     dut_volume_l : {90, 100, 104, 200}]

Abs(x) == IF x < 0 THEN -x ELSE x

\* calculate_error
calculate_error(ref_volume_l, dut_volume_l) ==
    IF ref_volume_l = 0 THEN 0
    ELSE ((dut_volume_l - ref_volume_l) * 100) \div ref_volume_l

\* check_pass
check_pass(error_pct, mpe_pct) == Abs(error_pct) <= Abs(mpe_pct)

\* process_q_point_result and record_result raise for a failed gravimetric
\* measurement, for inputs out of range, and when the row cannot be read or
\* saved.
ResultRaises(m, dbOk) ==
    ~m.success \/ m.net_weight_kg <= 0 \/ m.dut_volume_l < 0 \/ ~dbOk

\* record_result: the row of the Q-point with the volumes, the error and
\* the verdict.
record_result(row, m) ==
    LET error_pct == calculate_error(m.net_weight_kg, m.dut_volume_l)
    IN [row EXCEPT !.ref_volume_l = m.net_weight_kg,
                   !.dut_volume_l = m.dut_volume_l,
                   !.error_pct = error_pct,
                   !.passed = IF check_pass(error_pct, row.mpe_pct)
                              THEN "True" ELSE "False"]

\* _state_calculate for the current Q-point: an exception of
\* process_q_point_result is logged and the run goes on to the next
\* Q-point, or to COMPLETE after the last.
StateCalculate(m, dbOk) ==
    /\ results.pc = "calculate"
    /\ results' =
          [results EXCEPT
             !.rows[results.q_idx] =
                 IF ResultRaises(m, dbOk) THEN @ ELSE record_result(@, m),
             !.q_idx = IF @ + 1 < NumQPoints THEN @ + 1 ELSE @,
             !.pc = IF results.q_idx + 1 < NumQPoints
                    THEN "calculate" ELSE "complete"]
    /\ UNCHANGED <<vc, lastOp, pump, env, snap, obs, reg, eng, db, clock,
                   mon, mq, dut, lora, frag, tower, grav>>

\* complete_test: all(r.passed for r in results if r.passed is not None).
complete_test(r) ==
    [r EXCEPT !.status = "completed",
              !.overall_pass =
                  IF \A q \in DOMAIN r.rows :
                        r.rows[q].passed # "None" => r.rows[q].passed = "True"
                  THEN "True" ELSE "False"]

\* _state_complete: complete_test, and the certificate number for a run
\* that passed.
StateComplete ==
    LET r == complete_test(results)
    IN
    /\ results.pc = "complete"
    /\ results' = [r EXCEPT !.pc = "done",
                            !.certificate_number =
                                IF r.overall_pass = "True"
                                THEN "IIITB-date-0001" ELSE @]
    /\ UNCHANGED <<vc, lastOp, pump, env, snap, obs, reg, eng, db, clock,
                   mon, mq, dut, lora, frag, tower, grav>>

InitResults == InitValves

NextResults ==
    \/ \E m \in Measurements, dbOk \in BOOLEAN : StateCalculate(m, dbOk)
    \/ StateComplete

SpecResults == InitResults /\ [][NextResults]_vars

\* C35: a run is finalised as passed, and has a certificate number, only if
\* every Q-point of the run has a result row marked passed.
C35_PassNeedsEveryPoint ==
    (results.overall_pass = "True" \/ results.certificate_number # "") =>
        \A q \in DOMAIN results.rows : results.rows[q].passed = "True"

\* ---------------------------------------------------------------------------
\* The gravimetric engine over the Q-points of one run
\* (controller/gravimetric.py, driven by _state_tare_scale and
\* _state_measure of the test engine).  grav.state is MeasureState; grav.pc is
\* the position of the engine thread inside the calls it makes: tare() and
\* stop_collection_and_measure() assign _state several times with sleeps in
\* between, so each assignment is a step.  The engine never calls reset().
\* ---------------------------------------------------------------------------

\* Raw scale readings taken as the tare offset.
TareWeights == {0, 1, 2, 3, 4}

\* tare(), first assignment: self._state = TARING, whatever the state was.
TareBegin ==
    /\ grav.pc = "tare"
    /\ grav' = [grav EXCEPT !.state = "TARING", !.pc = "tare_wait"]
    /\ UNCHANGED <<vc, lastOp, pump, env, snap, obs, reg, eng, db, clock,
                   mon, mq, dut, lora, frag, tower, results>>

\* tare(), the rest: no snapshot gives ERROR and False; a reading within
\* tolerance before the deadline gives the offset, IDLE and True; the deadline
\* gives ERROR and False.  _retry calls tare() again up to MAX_RETRIES times
\* and _state_tare_scale raises AbortError after the last failure.
TareEnd(snapOk, settled, raw) ==
    LET ok == snapOk /\ settled
    IN
    /\ grav.pc = "tare_wait"
    /\ grav' = [grav EXCEPT
                  !.state = IF ok THEN "IDLE" ELSE "ERROR",
                  !.tare_weight = IF ok THEN raw ELSE @,
                  !.attempt = IF ok THEN 1
                              ELSE IF @ < MAX_RETRIES THEN @ + 1 ELSE @,
                  !.pc = IF ok THEN "collect"
                         ELSE IF grav.attempt < MAX_RETRIES THEN "tare"
                         ELSE "aborted"]
    /\ UNCHANGED <<vc, lastOp, pump, env, snap, obs, reg, eng, db, clock,
                   mon, mq, dut, lora, frag, tower, results>>

\* start_collection(): self._state = COLLECTING.
start_collection ==
    /\ grav.pc = "collect"
    /\ grav' = [grav EXCEPT !.state = "COLLECTING", !.pc = "stop"]
    /\ UNCHANGED <<vc, lastOp, pump, env, snap, obs, reg, eng, db, clock,
                   mon, mq, dut, lora, frag, tower, results>>

\* stop_collection_and_measure(), first assignment: SETTLING.
StopBegin ==
    /\ grav.pc = "stop"
    /\ grav' = [grav EXCEPT !.state = "SETTLING", !.pc = "settle"]
    /\ UNCHANGED <<vc, lastOp, pump, env, snap, obs, reg, eng, db, clock,
                   mon, mq, dut, lora, frag, tower, results>>

\* stop_collection_and_measure() after the settle sleep: READING.
StopSettled ==
    /\ grav.pc = "settle"
    /\ grav' = [grav EXCEPT !.state = "READING", !.pc = "read"]
    /\ UNCHANGED <<vc, lastOp, pump, env, snap, obs, reg, eng, db, clock,
                   mon, mq, dut, lora, frag, tower, results>>

\* stop_collection_and_measure(), the reading: no snapshot gives ERROR and an
\* unsuccessful result, otherwise COMPLETE.  _state_measure goes on to the
\* next state either way.
StopRead(snapOk) ==
    /\ grav.pc = "read"
    /\ grav' = [grav EXCEPT !.state = IF snapOk THEN "COMPLETE" ELSE "ERROR",
                            !.pc = "next"]
    /\ UNCHANGED <<vc, lastOp, pump, env, snap, obs, reg, eng, db, clock,
                   mon, mq, dut, lora, frag, tower, results>>

\* _state_next_point: the next Q-point starts with _state_tare_scale again,
\* on the same GravimetricEngine object.
GravNextPoint ==
    /\ grav.pc = "next"
    /\ grav' = [grav EXCEPT
                  !.q_idx = IF @ + 1 < NumQPoints THEN @ + 1 ELSE @,
                  !.pc = IF grav.q_idx + 1 < NumQPoints THEN "tare" ELSE "done"]
    /\ UNCHANGED <<vc, lastOp, pump, env, snap, obs, reg, eng, db, clock,
                   mon, mq, dut, lora, frag, tower, results>>

InitGrav == InitValves

NextGrav ==
    \/ TareBegin
    \/ \E snapOk \in BOOLEAN, settled \in BOOLEAN, raw \in TareWeights :
          TareEnd(snapOk, settled, raw)
    \/ start_collection
    \/ StopBegin
    \/ StopSettled
    \/ \E snapOk \in BOOLEAN : StopRead(snapOk)
    \/ GravNextPoint

SpecGrav == InitGrav /\ [][NextGrav]_vars

\* The transitions of the documented chain IDLE, TARING, IDLE, COLLECTING,
\* SETTLING, READING, COMPLETE.
GravChain ==
    { <<"IDLE", "TARING">>, <<"TARING", "IDLE">>, <<"IDLE", "COLLECTING">>,
      <<"COLLECTING", "SETTLING">>, <<"SETTLING", "READING">>,
      <<"READING", "COMPLETE">> }

\* C33: the state of the gravimetric engine changes only along the chain
\* IDLE, TARING, IDLE, COLLECTING, SETTLING, READING, COMPLETE or into ERROR,
\* also across the consecutive Q-points of one run.
C33_OnlyChainTransitions ==
    [][grav'.state # grav.state =>
          \/ <<grav.state, grav'.state>> \in GravChain
          \/ grav'.state = "ERROR"]_vars

\* ---------------------------------------------------------------------------
\* The tower light (controller/tower_light.py).  set_pattern is called by the
\* engine thread (state_machine.py) and by the safety watchdog's thread through
\* hardware.emergency_stop().  Only the comparison and assignment of _pattern
\* are made under the lock; _stop_blink and _start_blink run outside it, so
\* every statement of theirs is a step of the calling thread.  tower.pc[c] is
\* the position of caller c, tower.arg[c] the pattern it passed, tower.target[c]
\* the thread it joins; blink threads are numbered from 1 and 0 stands for None.
\* ---------------------------------------------------------------------------

TowerCallers == {"engine", "watchdog"}

\* PATTERN_MAP: the patterns of two alternating states.
BlinkPatterns == {"ESTOP", "TEST_PASS", "TEST_FAIL", "STABILIZING", "DRAINING"}

\* The patterns each caller passes.
PatternsOf(c) ==
    IF c = "engine" THEN {"TESTING", "STABILIZING", "ESTOP"} ELSE {"ESTOP"}

\* Blink threads created in one behaviour.
MaxBlinkThreads == 3

\* Calls in progress that will start a blink thread.
BlinkCallsInProgress ==
    Cardinality({c \in TowerCallers :
                    tower.pc[c] # "idle" /\ tower.arg[c] \in BlinkPatterns})

\* set_pattern, the part under the lock: the same pattern returns at once
\* (nothing changes), another one is stored.
SetPatternLocked(c, pattern) ==
    /\ tower.pc[c] = "idle"
    /\ pattern \in BlinkPatterns =>
          tower.created + BlinkCallsInProgress < MaxBlinkThreads
    /\ tower.pattern # pattern
    /\ tower' = [tower EXCEPT !.pattern = pattern,
                              !.arg[c] = pattern,
                              !.pc[c] = "stop"]
    /\ UNCHANGED <<vc, lastOp, pump, env, snap, obs, reg, eng, db, clock,
                   mon, mq, dut, lora, frag, grav, results>>

\* _stop_blink: _blink_running = False, then the test of _blink_thread.
StopBlinkFlag(c) ==
    /\ tower.pc[c] = "stop"
    /\ tower' = [tower EXCEPT
                   !.blink_running = FALSE,
                   !.target[c] = tower.blink_thread,
                   !.pc[c] = IF tower.blink_thread # 0 THEN "join" ELSE "apply"]
    /\ UNCHANGED <<vc, lastOp, pump, env, snap, obs, reg, eng, db, clock,
                   mon, mq, dut, lora, frag, grav, results>>

\* _stop_blink: join(timeout=1.0) returns when the thread has ended, or after
\* the timeout while the thread goes on (it goes on only while the flag is
\* set again); then _blink_thread = None.
StopBlinkJoin(c) ==
    /\ tower.pc[c] = "join"
    /\ tower.target[c] \notin tower.alive \/ tower.blink_running
    /\ tower' = [tower EXCEPT !.blink_thread = 0,
                              !.target[c] = 0,
                              !.pc[c] = "apply"]
    /\ UNCHANGED <<vc, lastOp, pump, env, snap, obs, reg, eng, db, clock,
                   mon, mq, dut, lora, frag, grav, results>>

\* set_pattern after _stop_blink: a static pattern is applied and the call
\* returns; for a blink pattern _start_blink sets _blink_running = True.
ApplyOrStartFlag(c) ==
    /\ tower.pc[c] = "apply"
    /\ tower' = IF tower.arg[c] \in BlinkPatterns
                THEN [tower EXCEPT !.blink_running = TRUE, !.pc[c] = "start"]
                ELSE [tower EXCEPT !.pc[c] = "idle"]
    /\ UNCHANGED <<vc, lastOp, pump, env, snap, obs, reg, eng, db, clock,
                   mon, mq, dut, lora, frag, grav, results>>

\* _start_blink: the thread is created, stored in _blink_thread and started.
StartBlinkThread(c) ==
    /\ tower.pc[c] = "start"
    /\ tower' = [tower EXCEPT !.created = @ + 1,
                              !.blink_thread = tower.created + 1,
                              !.alive = @ \cup {tower.created + 1},
                              !.pc[c] = "idle"]
    /\ UNCHANGED <<vc, lastOp, pump, env, snap, obs, reg, eng, db, clock,
                   mon, mq, dut, lora, frag, grav, results>>

\* _blink_loop: the thread ends when it finds _blink_running False.
BlinkLoopExit(t) ==
    /\ t \in tower.alive
    /\ ~tower.blink_running
    /\ tower' = [tower EXCEPT !.alive = @ \ {t}]
    /\ UNCHANGED <<vc, lastOp, pump, env, snap, obs, reg, eng, db, clock,
                   mon, mq, dut, lora, frag, grav, results>>

InitTower == InitValves

NextTower ==
    \/ \E c \in TowerCallers : \E pattern \in PatternsOf(c) :
          SetPatternLocked(c, pattern)
    \/ \E c \in TowerCallers : StopBlinkFlag(c)
    \/ \E c \in TowerCallers : StopBlinkJoin(c)
    \/ \E c \in TowerCallers : ApplyOrStartFlag(c)
    \/ \E c \in TowerCallers : StartBlinkThread(c)
    \/ \E t \in 1..MaxBlinkThreads : BlinkLoopExit(t)

SpecTower == InitTower /\ [][NextTower]_vars

\* C32: at most one blink task of the tower light is active at any time, also
\* when set_pattern is called concurrently by the engine and by the
\* emergency-stop path.
C32_AtMostOneBlinkTask == Cardinality(tower.alive) <= 1

\* ---------------------------------------------------------------------------
\* The operator's entry during a run in manual mode
\* (TestStateMachine.submit_manual_dut_reading, called by the UI's thread
\* while the engine's thread waits in _request_manual_dut).
\* ---------------------------------------------------------------------------

ReadingTypes == {"before", "after", "other"}

\* The totalizer values typed in during a run.
EntryValues == {-5, 10}

\* submit_manual_dut_reading(reading_type, value): 'before' goes to
\* set_before_reading, 'after' to set_after_reading, anything else returns
\* False; an accepted value sets the event of the wait, whichever reading the
\* engine is waiting for.
submit_manual_dut_reading(reading_type, value) ==
    LET ok == IF reading_type = "before" THEN value >= 0
              ELSE IF reading_type = "after" THEN value >= dut.before
              ELSE FALSE
    IN
    /\ eng.pc \in {"dut_before", "dut_after"}
    /\ eng.dut_mode = "manual"
    /\ dut' = IF reading_type = "other" THEN dut
              ELSE IF ~ok THEN [dut EXCEPT !.result = "rejected"]
              ELSE IF reading_type = "before"
                   THEN [dut EXCEPT !.before = value, !.timestamp_before = Now,
                                    !.state = "MEASURING", !.result = "accepted"]
              ELSE [dut EXCEPT !.after = value, !.timestamp_after = Now,
                               !.state = "COMPLETE", !.result = "accepted"]
    /\ eng' = [eng EXCEPT !.event = @ \/ ok]
    /\ UNCHANGED <<vc, lastOp, pump, env, snap, obs, reg, db, clock, mon, mq,
                   lora, frag, tower, grav, results>>

NextManualEntry ==
    \/ EngineStep
    \/ \E reading_type \in ReadingTypes, value \in EntryValues :
          submit_manual_dut_reading(reading_type, value)
    \/ \E reason \in AbortReasons : ExternalAbort(reason)

SpecManualEntry == InitEngineFair /\ [][NextManualEntry]_vars

\* C40: the engine leaves the wait for a manual DUT reading and continues the
\* run only after a valid reading of the requested kind has been accepted
\* (the DUT interface is reset at the start of each measurement, so an
\* accepted reading of a kind has left its timestamp).
C40_ReleasedByRequestedKind ==
    [][(/\ eng.dut_mode = "manual"
        /\ eng.pc \in {"dut_before", "dut_after"}
        /\ eng'.pc = AfterDutReading(eng)) =>
          IF eng.pc = "dut_before"
          THEN dut.timestamp_before # 0
          ELSE dut.timestamp_after # 0]_vars

\* ---------------------------------------------------------------------------
\* Fragment loss and the reuse of a fragment id
\* (FragmentReassembler.add keys its groups by frag_id alone; the sender's
\* _frag_id_counter is one byte).
\* ---------------------------------------------------------------------------

\* A fragment on the air never reaches the receiver's serial line.
LoseFragment(f) ==
    /\ f \in frag.air
    /\ frag' = [frag EXCEPT !.air = @ \ {f}]
    /\ UNCHANGED <<vc, lastOp, pump, env, snap, obs, reg, eng, db, clock,
                   mon, mq, dut, lora,
                   tower, grav, results>>

\* A link outage: _transmit_frame is called FRAG_ID_MODULUS - 1 times and
\* none of these frames reaches the receiver, whose _receive_loop reads no
\* line meanwhile (so cleanup_stale is not reached).  The next frame gets
\* the fragment id of the last frame sent before the outage.
TransmitUnheard ==
    /\ frag.idle < MaxIdle
    /\ frag' = [frag EXCEPT
                  !.counter = (@ + (FRAG_ID_MODULUS - 1)) % FRAG_ID_MODULUS,
                  !.now = @ + IdleSeconds,
                  !.idle = @ + 1]
    /\ UNCHANGED <<vc, lastOp, pump, env, snap, obs, reg, eng, db, clock,
                   mon, mq, dut, lora,
                   tower, grav, results>>

NextIdReuse ==
    \/ \E len \in FrameLens : TransmitFrame(len)
    \/ \E f \in frag.air : ReceiveFragment(f)
    \/ \E f \in frag.air : LoseFragment(f)
    \/ TransmitUnheard

SpecIdReuse == InitFragments /\ [][NextIdReuse]_vars

\* C38: every byte string the reassembler emits equals a frame that the
\* sender fragmented; fragments of different groups are never combined, also
\* when a fragment id is reused while an earlier group with that id is
\* incomplete.
C38_EmitsOnlySentFrames ==
    frag.out.some =>
        \E n \in 1..Len(frag.sent) :
            frag.out.data = FrameBytes(n, frag.sent[n])

\* ---------------------------------------------------------------------------
\* The dispatch thread step by step (comms/message_queue.py).  _dispatch_loop
\* holds the lock only while it pops the queue, appends to a queue or
\* touches _pending_acks; between these it reads _link_online, changes the
\* record and walks the list its timeout scan has collected, while
\* _handle_ack and set_link_online run on other threads.
\* ---------------------------------------------------------------------------

\* _dispatch_loop: the head of the queue is popped under the lock.
DispatchPop ==
    /\ mq.pc = "running"
    /\ mq' = IF mq.queue = <<>>
             THEN [mq EXCEPT !.pc = "scan", !.last = NoLast]
             ELSE [mq EXCEPT !.queue = Tail(@), !.cur = Head(mq.queue),
                             !.pc = "check_link", !.last = NoLast]
    /\ UNCHANGED <<vc, lastOp, pump, env, snap, obs, reg, eng, db, clock, mon,
                   dut, lora, frag, tower, grav, results>>

\* _dispatch_message: _link_online is read; with the link offline the
\* record's status becomes QUEUED.
DispatchCheckLink ==
    /\ mq.pc = "check_link"
    /\ mq' = IF mq.link_online
             THEN [mq EXCEPT !.pc = "send"]
             ELSE [mq EXCEPT !.records[mq.cur].status = "queued",
                             !.pc = "offline_append"]
    /\ UNCHANGED <<vc, lastOp, pump, env, snap, obs, reg, eng, db, clock, mon,
                   dut, lora, frag, tower, grav, results>>

\* _dispatch_message: the record is appended to the offline queue under the
\* lock, and the method returns.
DispatchOfflineAppend ==
    /\ mq.pc = "offline_append"
    /\ mq' = [mq EXCEPT !.offline_queue = Append(@, mq.cur),
                        !.cur = 0, !.pc = "scan"]
    /\ UNCHANGED <<vc, lastOp, pump, env, snap, obs, reg, eng, db, clock, mon,
                   dut, lora, frag, tower, grav, results>>

\* _dispatch_message with the link found online: the frame is encoded and
\* handed to send_func.
DispatchSend(success) ==
    /\ mq.pc = "send"
    /\ mq.frames < MaxFrames
    /\ mq' = [dispatch_online(mq, mq.cur, success) EXCEPT
                !.cur = 0, !.pc = "scan"]
    /\ UNCHANGED <<vc, lastOp, pump, env, snap, obs, reg, eng, db, clock, mon,
                   dut, lora, frag, tower, grav, results>>

\* _check_timeouts, the scan under the lock: the entries sent more than
\* ACK_TIMEOUT ago are collected.
TimeoutScan ==
    /\ mq.pc = "scan"
    /\ mq' = [mq EXCEPT
                !.timed_out =
                    SelectSeq(mq.pending_acks,
                              LAMBDA e : mq.records[e.msg_id].age > ACK_TIMEOUT),
                !.pc = "timeouts"]
    /\ UNCHANGED <<vc, lastOp, pump, env, snap, obs, reg, eng, db, clock, mon,
                   dut, lora, frag, tower, grav, results>>

\* _check_timeouts, one turn of the loop over the collected entries, or its
\* end and the return to the top of _dispatch_loop.
TimeoutHandle ==
    /\ mq.pc = "timeouts"
    /\ mq' = IF mq.timed_out = <<>>
             THEN [mq EXCEPT !.pc = "running"]
             ELSE [timeout_record(mq, Head(mq.timed_out)) EXCEPT
                      !.timed_out = Tail(@)]
    /\ UNCHANGED <<vc, lastOp, pump, env, snap, obs, reg, eng, db, clock, mon,
                   dut, lora, frag, tower, grav, results>>

NextDispatch ==
    \/ Send
    \/ DispatchPop
    \/ DispatchCheckLink
    \/ DispatchOfflineAppend
    \/ \E success \in BOOLEAN : DispatchSend(success)
    \/ TimeoutScan
    \/ TimeoutHandle
    \/ Advance
    \/ \E f \in AckFrames : ReceiveFrame(f)
    \/ \E online \in BOOLEAN : SetLinkOnline(online)

SpecDispatch == InitQueue /\ [][NextDispatch]_vars

\* C36: a record that has been marked ACKED keeps that status and is not
\* transmitted again, also when its acknowledgement is processed while the
\* timeout scan is handling it.
C36_AckedIsFinal ==
    [][\A id \in DOMAIN mq.records :
          mq.records[id].status = "acked" =>
             /\ mq'.records[id].status = "acked"
             /\ mq'.records[id].seq = mq.records[id].seq]_vars

\* The steps of the dispatch thread when send_func accepts every frame.
DispatcherStep ==
    \/ DispatchPop
    \/ DispatchCheckLink
    \/ DispatchOfflineAppend
    \/ DispatchSend(TRUE)
    \/ TimeoutScan
    \/ TimeoutHandle

NextStranded ==
    \/ Send
    \/ DispatcherStep
    \/ \E online \in BOOLEAN : SetLinkOnline(online)

\* The dispatch thread keeps running: its loop sleeps 0.1 s per round and
\* never blocks.
SpecStranded == InitQueue /\ [][NextStranded]_vars /\ WF_vars(DispatcherStep)

\* Every record created so far has been handed to send_func.
AllTransmitted == \A id \in DOMAIN mq.records : mq.records[id].was_sent

\* C37: no message is stranded: if the link is online and stays online,
\* every enqueued record is eventually transmitted.
C37_NoMessageStranded == <>[]mq.link_online => []<>AllTransmitted

====
